---- MODULE Spec2Model ----
(***************************************************************************)
(* Shared state, per-plant update tasks, alarm / event registry and        *)
(* Modbus projection of the solar-panel simulator.                          *)
(*                                                                          *)
(* Numbers.  The source computes in f64.  The model uses fixed point with   *)
(* three decimals: a quantity x of the source is the integer 1000 * x       *)
(* (253.0 V is 253000, 0.08 is 80, 50.5 Hz is 50500).  Energy is kept in    *)
(* W*s (3.6e6 W*s = 1 kWh), so that the per-sample increment                *)
(* power_kw * (5 / 3600) is the integer power * 5.  A det_hash value in     *)
(* [0, 1) is an integer per mille in 0..999.  Every lock-protected section  *)
(* of the source is one action; the positions between them are the pc.      *)
(***************************************************************************)
EXTENDS Integers, Sequences, FiniteSets, TLC

\* ------------------------------------------------------------------ bounds
\* Number of plants of the configuration (config.json plants array).
NumPlants == 2
\* Ticks each plant task performs before the model stops it.
MaxTicks == 2
\* Operator requests (mode changes, acknowledgements) the model allows.
MaxOps == 2
\* Midnights that may pass while the model runs.
MaxDays == 1
\* Ticks a plant that is not freshly started has behind it.
WarmTicks == 40
\* Ticks of an overtemperature event a hot inverter has behind it.
HotTicks == 12
\* MAX_ALARM_HISTORY of the source is 500; the model keeps the trimming
\* code and scales the capacity so that the registry fills up.
MAX_ALARM_HISTORY == 3
\* MAX_EVENT_LOG of the source is 1000; scaled in the same way.
MAX_EVENT_LOG == 4

\* ------------------------------------------------------- program constants
UPDATE_INTERVAL_S == 5
V_DC_NOM == 700000
VMPP_VOC_RATIO == 800
\* V_TEMP_COEFF = -0.0035 per degree, kept in units of 1e-4
V_TEMP_COEFF == -35
IRRAD_START_W_M2 == 30000
IRRAD_STOP_W_M2 == 15000
RAMP_RATE == 80
V_GRID_NOM == 230000
V_OV_LIMIT == 253000
V_UV_LIMIT == 207000
F_NOM == 50000
F_OV_LIMIT == 50500
F_UV_LIMIT == 49500
ROCOF_LIMIT == 1000
ISOL_FAULT_MOHM == 500
T_OVERTEMP_C == 80000
P_VOLT_FAULT == 25
P_FREQ_FAULT == 15
P_ISOL_FAULT == 15
P_OT_FAULT == 5
P_FAN_FAULT == 8

\* alarm_codes
NONE == 0
AC_OVERVOLTAGE == 101
AC_UNDERVOLTAGE == 102
AC_OVERFREQUENCY == 103
AC_UNDERFREQUENCY == 104
ROCOF_TRIP == 105
DC_OVERVOLTAGE == 201
ISOLATION_FAULT == 301
GROUND_FAULT == 302
OVERTEMPERATURE == 401
FAN_FAULT == 402

\* alarm_flag_bits, as bit positions: the mask 1 << n is the position n, a
\* set of positions is a mask, and the union of two sets is their bitwise OR.
BIT_AC_OVERVOLTAGE == 0
BIT_AC_UNDERVOLTAGE == 1
BIT_FREQUENCY_FAULT == 2
BIT_ISOLATION_FAULT == 3
BIT_OVERTEMPERATURE == 4
\* The four masks below are used by set_data but their declarations are not
\* in the source tree; they are taken to be four further distinct bits.
BIT_LEAKAGE_CURRENT == 8
BIT_FAN_FAULT == 9
BIT_DC_OVERVOLTAGE == 10
BIT_ROCOF_TRIP == 11

\* PlantData status values
STATUS_STOPPED == 0
STATUS_RUNNING == 1
STATUS_FAULT == 2
STATUS_CURTAILED == 3
STATUS_STARTING == 4
STATUS_MPPT == 5

\* ----------------------------------------------------------------- helpers
Plants == 1..NumPlants

Min(a, b) == IF a < b THEN a ELSE b
Max(a, b) == IF a > b THEN a ELSE b
\* f64::clamp
Clamp(x, lo, hi) == IF x < lo THEN lo ELSE IF x > hi THEN hi ELSE x
\* f64::abs
Abs(x) == IF x < 0 THEN -x ELSE x
\* Division of the source's real arithmetic, truncated toward zero.
Div(a, b) == IF a >= 0 THEN a \div b ELSE -((-a) \div b)

\* a / b rounded to the nearest integer (f64 arithmetic rounds to nearest).
RoundDiv(a, b) ==
    IF a >= 0 THEN (2 * a + b) \div (2 * b) ELSE -((2 * (-a) + b) \div (2 * b))

RECURSIVE Pow2(_)
Pow2(n) == IF n = 0 THEN 1 ELSE 2 * Pow2(n - 1)

\* The u32 value of a mask given as a set of bit positions.
RECURSIVE FlagsValue(_)
FlagsValue(S) ==
    IF S = {} THEN 0
    ELSE LET b == CHOOSE x \in S : TRUE IN Pow2(b) + FlagsValue(S \ {b})

\* The absent entry of the plant_data / prev_freq maps.
NoData == [absent |-> TRUE]

\* -------------------------------------------------------------- PlantData
\* impl Default for PlantData.  The fields set_data uses that the Default of
\* the source tree does not list (leakage_current_ma, fan_fault_active,
\* inverter_fan_speed_rpm, co2_avoided_kg, daily_peak_power_kw,
\* last_day_reset, ramp_factor) start at zero / false: set_data tests
\* last_day_reset == 0 for "first run".  Fields that need exp, sin or sqrt
\* (power factor, apparent and reactive power, phase currents, THD) and the
\* pass-through weather fields are left out.
DefaultPlantData ==
    [ power_kw |-> 0, voltage_l1_v |-> 230000, voltage_l2_v |-> 230000,
      voltage_l3_v |-> 230000, frequency_hz |-> 50000, rocof_hz_s |-> 0,
      dc_voltage_v |-> 600000, dc_power_kw |-> 0, mppt_voltage_v |-> 600000,
      temperature_c |-> 25000, inverter_temp_c |-> 35000,
      ambient_temp_c |-> 20000, efficiency_percent |-> 0,
      poa_irradiance_w_m2 |-> 0, solar_elevation_deg |-> 0,
      isolation_resistance_mohm |-> 10000, leakage_current_ma |-> 0,
      fan_fault_active |-> FALSE, inverter_fan_speed_rpm |-> 0,
      status |-> 0, fault_code |-> 0, alarm_flags |-> {}, is_day |-> FALSE,
      daily_energy_kwh |-> 0, monthly_energy_kwh |-> 0,
      total_energy_kwh |-> 0, co2_avoided_kg |-> 0,
      daily_peak_power_kw |-> 0, last_day_reset |-> 0, ramp_factor |-> 0,
      performance_ratio |-> 0, capacity_factor_percent |-> 0 ]

\* PlantConfig.nominal_power_kw of plant p (100 kW for every plant).
nominal_power_kw(p) == 100000

\* ------------------------------------------- set_data, steps 1b .. 10
\* Faulty variant of the reset: the daily peak survives midnight.
MidnightReset_KeepsPeak(data, today_doy) ==
    IF data.last_day_reset = 0
    THEN [data EXCEPT !.last_day_reset = today_doy]
    ELSE IF data.last_day_reset # today_doy
    THEN [data EXCEPT !.daily_energy_kwh = 0, !.last_day_reset = today_doy]
    ELSE data

\* Faulty variant of the reset: the monthly energy is cleared with the
\* daily one.
MidnightReset_MonthToo(data, today_doy) ==
    IF data.last_day_reset = 0
    THEN [data EXCEPT !.last_day_reset = today_doy]
    ELSE IF data.last_day_reset # today_doy
    THEN [data EXCEPT !.daily_energy_kwh = 0, !.daily_peak_power_kw = 0,
                      !.monthly_energy_kwh = 0, !.last_day_reset = today_doy]
    ELSE data

\* 1b. Midnight daily-energy reset.
MidnightReset(data, today_doy) ==
    IF data.last_day_reset = 0
    THEN [data EXCEPT !.last_day_reset = today_doy]
    ELSE IF data.last_day_reset # today_doy
    THEN [data EXCEPT !.daily_energy_kwh = 0, !.daily_peak_power_kw = 0,
                      !.last_day_reset = today_doy]
    ELSE data

\* Faulty variant of the ramp: the factor jumps to its target.
RampFactor_Jump(ramp_factor, poa, is_day) ==
    IF poa >= IRRAD_START_W_M2 /\ is_day THEN 1000
    ELSE IF poa < IRRAD_STOP_W_M2 THEN 0
    ELSE ramp_factor

\* 2. MPPT startup / shutdown ramp.
RampFactor(ramp_factor, poa, is_day) ==
    LET ramp_target ==
            IF poa >= IRRAD_START_W_M2 /\ is_day THEN 1000
            ELSE IF poa < IRRAD_STOP_W_M2 THEN 0
            ELSE ramp_factor
    IN Clamp(ramp_factor
               + RoundDiv((ramp_target - ramp_factor) * RAMP_RATE, 1000),
             0, 1000)

\* 2b. V_mpp = V_DC_NOM * VMPP_VOC_RATIO * (1 + V_TEMP_COEFF * (T - 25)).
MpptVoltage(temperature_c) ==
    LET vmpp_stc == Div(V_DC_NOM * VMPP_VOC_RATIO, 1000 * 1000)  \* volts
    IN vmpp_stc * 1000
       + Div(vmpp_stc * V_TEMP_COEFF * (temperature_c - 25000), 10000)

\* DC overvoltage check: V_oc estimate more than 10 % over the rated bus.
DcOv(mppt_voltage_v) ==
    Div(mppt_voltage_v * 10, VMPP_VOC_RATIO \div 100) > Div(V_DC_NOM * 11, 10)

\* 3. Load factor and inverter efficiency curve.
LoadFactor(dc_power_ramped, nominal) ==
    IF nominal > 0 THEN Div(dc_power_ramped * 1000, nominal) ELSE 0

InvEff(load_factor) ==
    IF load_factor < 10 THEN 0
    ELSE IF load_factor < 100 THEN 800 + Div(load_factor * 155, 100)
    ELSE IF load_factor < 500 THEN 955 + Div((load_factor - 100) * 25, 400)
    ELSE 980 - Div((load_factor - 500) * 8, 500)

Efficiency(load_factor, temperature_c) ==
    LET temp_loss == Div(Max(temperature_c - 25000, 0) * 4, 10000)
    IN Clamp(InvEff(load_factor) - temp_loss, 0, 999)

\* 5. Heatsink temperature: target and first-order filter.
HeatsinkTarget(h_ot, is_day, ambient_temp_c, p_loss, nominal) ==
    LET loss_fraction == IF nominal > 0 THEN Div(p_loss * 1000, nominal) ELSE 0
    IN IF h_ot < P_OT_FAULT /\ is_day
       THEN T_OVERTEMP_C + 5000 + Div(h_ot * 10000, P_OT_FAULT)
       ELSE ambient_temp_c + 20000 + Clamp(loss_fraction, 0, 1000) * 65

InverterTemp(inverter_temp_c, t_hs_target) ==
    inverter_temp_c + Div((t_hs_target - inverter_temp_c) * 2, 10)

\* 6. Grid voltage offset: swell, sag, or drift plus ripple.
VOffset(h) ==
    LET v_drift  == (h.v_drift * 2 - 1000) * 4
        v_ripple == Div((h.rip * 2 - 1000) * 4, 10)
    IN IF h.swell < P_VOLT_FAULT
       THEN 28000 + Div(h.swell * 18000, P_VOLT_FAULT)
       ELSE IF h.sag < P_VOLT_FAULT
       THEN -(28000 + Div(h.sag * 18000, P_VOLT_FAULT))
       ELSE v_drift + v_ripple

\* Frequency offset: over- / under-frequency event, or drift plus ripple.
FOffset(h) ==
    LET f_drift  == Div((h.f_drift * 2 - 1000) * 80, 1000)
        f_ripple == Div((h.frip * 2 - 1000) * 10, 1000)
    IN IF h.freq_hi < P_FREQ_FAULT
       THEN 550 + Div(h.freq_hi * 250, P_FREQ_FAULT)
       ELSE IF h.freq_lo < P_FREQ_FAULT
       THEN -(550 + Div(h.freq_lo * 250, P_FREQ_FAULT))
       ELSE f_drift + f_ripple

\* Faulty variant of the ROCOF: the difference of two samples, not divided
\* by the time between them.
Rocof_PerSample(new_freq, prev_f) == new_freq - prev_f

\* ROCOF between two consecutive 5-second samples.
Rocof(new_freq, prev_f) == Div(new_freq - prev_f, UPDATE_INTERVAL_S)

\* 9. Isolation resistance.
IsolationResistance(h_wet, is_day, poa, solar_elevation_deg) ==
    LET irr_ratio == Clamp(Div(poa, 1000), 0, 1100)
        isol_base == IF h_wet < P_ISOL_FAULT /\ is_day
                     THEN 50 + Div(h_wet * 350, P_ISOL_FAULT)
                     ELSE 10000 + irr_ratio * 30
        dew_factor == IF is_day /\ solar_elevation_deg < 20000
                      THEN 300 + Div(solar_elevation_deg * 700, 20000)
                      ELSE 1000
    IN Max(Div(isol_base * dew_factor, 1000), 50)

\* 9b. Leakage current.
LeakageCurrent(isolation, relative_humidity_pct, h_leak) ==
    LET leak_humidity_factor ==
            1000 + Div(Max(relative_humidity_pct - 50000, 0) * 12, 1000)
        leak_base == Div(2500 * leak_humidity_factor, Max(isolation, 10))
    IN Clamp(leak_base + Div(h_leak * 500, 1000), 50, 350000)

\* 9c. Cooling fan.
FanRpm(inverter_temp_c, fan_fail) ==
    IF inverter_temp_c < 40000 THEN 0
    ELSE IF fan_fail THEN 0
    ELSE LET frac == Clamp(Div((inverter_temp_c - 40000) * 1000, 40000), 0, 1000)
         IN 1500 + Div(frac * 2100, 1000)

\* 10. Status determination.
HasFault(v_avg, d, dc_ov) ==
    \/ v_avg > V_OV_LIMIT
    \/ v_avg < V_UV_LIMIT
    \/ d.frequency_hz > F_OV_LIMIT
    \/ d.frequency_hz < F_UV_LIMIT
    \/ Abs(d.rocof_hz_s) > ROCOF_LIMIT
    \/ d.isolation_resistance_mohm < ISOL_FAULT_MOHM
    \/ d.inverter_temp_c > T_OVERTEMP_C
    \/ (d.fan_fault_active /\ d.inverter_temp_c > T_OVERTEMP_C - 5000)
    \/ dc_ov

StatusOf(has_fault, ramp, poa, ac_power, load_factor, is_day, elevation) ==
    IF has_fault THEN STATUS_FAULT
    ELSE IF ramp < 50 /\ poa < IRRAD_START_W_M2 THEN STATUS_STOPPED
    ELSE IF ramp < 990 /\ poa >= IRRAD_START_W_M2 THEN STATUS_STARTING
    ELSE IF ramp > 0 /\ ramp < 1000 /\ poa < IRRAD_START_W_M2
    THEN STATUS_CURTAILED
    ELSE IF ac_power > 1
    THEN (IF load_factor < 999 THEN STATUS_MPPT ELSE STATUS_RUNNING)
    ELSE IF is_day /\ elevation > 1000 THEN STATUS_STARTING
    ELSE STATUS_STOPPED


\* set_data from the first plant_data.write() to drop(map): the entry is
\* created on demand, every derived field is stored, status is decided.
\* data0 is the stored record (or the default), has_prev / prev_f the
\* prev_freq entry, est the estimate, h the det_hash values of this call.
SetDataLocked(data0, has_prev, prev_f, nominal, est, h, today_doy) ==
    LET d0 == [data0 EXCEPT !.is_day = est.is_day,
                            !.poa_irradiance_w_m2 = est.poa_irradiance_w_m2,
                            !.solar_elevation_deg = est.solar_elevation_deg,
                            !.temperature_c = est.temperature_c,
                            !.ambient_temp_c = est.ambient_temp_c]
        d1 == MidnightReset(d0, today_doy)
        ramp == RampFactor(d1.ramp_factor, est.poa_irradiance_w_m2, est.is_day)
        mppt_voltage_v == MpptVoltage(est.temperature_c)
        dc_power_ramped == Div(est.power_kw * ramp, 1000)
        dc_ov == DcOv(mppt_voltage_v)
        load_factor == LoadFactor(dc_power_ramped, nominal)
        efficiency == Efficiency(load_factor, est.temperature_c)
        ac_power == Div(dc_power_ramped * efficiency, 1000)
        p_loss == dc_power_ramped - ac_power
        inverter_temp_c ==
            InverterTemp(d1.inverter_temp_c,
                         HeatsinkTarget(h.ot, est.is_day, est.ambient_temp_c,
                                        p_loss, nominal))
        v_offset == VOffset(h)
        l1 == V_GRID_NOM + v_offset
        l2 == V_GRID_NOM + v_offset + Div((h.ph * 2 - 1000) * 5, 10)
        l3 == V_GRID_NOM + v_offset - Div((h.ph2 * 2 - 1000) * 5, 10)
        new_freq == F_NOM + FOffset(h)
        prev == IF has_prev THEN prev_f ELSE new_freq
        rocof == Rocof(new_freq, prev)
        isolation == IsolationResistance(h.wet, est.is_day,
                                         est.poa_irradiance_w_m2,
                                         est.solar_elevation_deg)
        leakage == LeakageCurrent(isolation, est.relative_humidity_pct, h.leak)
        fan_fail == h.fan < P_FAN_FAULT /\ est.is_day
        fan_rpm == FanRpm(inverter_temp_c, fan_fail)
        d2 == [d1 EXCEPT !.ramp_factor = ramp,
                         !.mppt_voltage_v = mppt_voltage_v,
                         !.dc_voltage_v = Div(mppt_voltage_v * 105, 100),
                         !.dc_power_kw = dc_power_ramped,
                         !.efficiency_percent = efficiency * 100,
                         !.power_kw = ac_power,
                         !.inverter_temp_c = inverter_temp_c,
                         !.voltage_l1_v = l1,
                         !.voltage_l2_v = l2,
                         !.voltage_l3_v = l3,
                         !.rocof_hz_s = rocof,
                         !.frequency_hz = new_freq,
                         !.isolation_resistance_mohm = isolation,
                         !.leakage_current_ma = leakage,
                         !.fan_fault_active = fan_fail,
                         !.inverter_fan_speed_rpm = fan_rpm]
        v_avg == Div(l1 + l2 + l3, 3)
        has_fault == HasFault(v_avg, d2, dc_ov)
        status == StatusOf(has_fault, ramp, est.poa_irradiance_w_m2, ac_power,
                           load_factor, est.is_day, est.solar_elevation_deg)
    IN [ data |-> [d2 EXCEPT !.status = status],
         new_freq |-> new_freq,
         snap |-> [ v_avg |-> v_avg, is_day |-> est.is_day,
                    snap_freq |-> new_freq, snap_isol |-> isolation,
                    snap_inv_temp |-> inverter_temp_c, snap_rocof |-> rocof,
                    snap_leak |-> leakage, snap_fan_fail |-> fan_fail,
                    snap_fan_rpm |-> fan_rpm, ac_power |-> ac_power,
                    dc_ov |-> dc_ov ] ]

\* ---------------------------------------- set_data, step 11: alarm logic
\* Faulty variant of try_set_fault: the last code wins.
try_set_fault_LastWins(code, new_code) == new_code

try_set_fault(code, new_code) == IF code = NONE THEN new_code ELSE code

Raise(code, severity) == [op |-> "raise", code |-> code, severity |-> severity]
Clear(code) == [op |-> "clear", code |-> code, severity |-> "-"]
\* What one if / else block of step 11 does: the bits it ORs into new_flags,
\* the code it hands to try_set_fault (NONE: no call) and its helper calls.
Block(flags, fault, calls) == [flags |-> flags, fault |-> fault, calls |-> calls]

AlarmBlocks(s) ==
    << \* Overvoltage
       IF s.v_avg > V_OV_LIMIT
       THEN Block({BIT_AC_OVERVOLTAGE}, AC_OVERVOLTAGE,
                  <<Raise(AC_OVERVOLTAGE, "Warning")>>)
       ELSE Block({}, NONE, <<Clear(AC_OVERVOLTAGE)>>),
       \* Undervoltage
       IF s.v_avg < V_UV_LIMIT /\ s.is_day
       THEN Block({BIT_AC_UNDERVOLTAGE}, AC_UNDERVOLTAGE,
                  <<Raise(AC_UNDERVOLTAGE, "Warning")>>)
       ELSE Block({}, NONE, <<Clear(AC_UNDERVOLTAGE)>>),
       \* Frequency
       IF s.snap_freq > F_OV_LIMIT
       THEN Block({BIT_FREQUENCY_FAULT}, AC_OVERFREQUENCY,
                  <<Raise(AC_OVERFREQUENCY, "Warning"), Clear(AC_UNDERFREQUENCY)>>)
       ELSE IF s.snap_freq < F_UV_LIMIT
       THEN Block({BIT_FREQUENCY_FAULT}, AC_UNDERFREQUENCY,
                  <<Raise(AC_UNDERFREQUENCY, "Warning"), Clear(AC_OVERFREQUENCY)>>)
       ELSE Block({}, NONE, <<Clear(AC_OVERFREQUENCY), Clear(AC_UNDERFREQUENCY)>>),
       \* Isolation fault
       IF s.snap_isol < ISOL_FAULT_MOHM
       THEN Block({BIT_ISOLATION_FAULT}, ISOLATION_FAULT,
                  <<Raise(ISOLATION_FAULT, "Fault")>>)
       ELSE Block({}, NONE, <<Clear(ISOLATION_FAULT)>>),
       \* Leakage current
       IF s.snap_leak > 300000
       THEN Block({BIT_LEAKAGE_CURRENT}, GROUND_FAULT,
                  <<Raise(GROUND_FAULT, "Critical")>>)
       ELSE IF s.snap_leak > 100000
       THEN Block({BIT_LEAKAGE_CURRENT}, NONE, <<Raise(GROUND_FAULT, "Warning")>>)
       ELSE Block({}, NONE, <<Clear(GROUND_FAULT)>>),
       \* Overtemperature
       IF s.snap_inv_temp > T_OVERTEMP_C
       THEN Block({BIT_OVERTEMPERATURE}, OVERTEMPERATURE,
                  <<Raise(OVERTEMPERATURE, "Critical")>>)
       ELSE Block({}, NONE, <<Clear(OVERTEMPERATURE)>>),
       \* Fan fault, fan under-speed
       IF s.snap_fan_fail /\ s.snap_inv_temp > 45000
       THEN Block({BIT_FAN_FAULT}, FAN_FAULT, <<Raise(FAN_FAULT, "Warning")>>)
       ELSE IF s.ac_power > 100 /\ s.snap_fan_rpm > 0 /\ s.snap_fan_rpm < 1200
               /\ s.snap_inv_temp > 50000
       THEN Block({BIT_FAN_FAULT}, NONE, <<Raise(FAN_FAULT, "Warning")>>)
       ELSE Block({}, NONE, <<Clear(FAN_FAULT)>>),
       \* DC overvoltage
       IF s.dc_ov
       THEN Block({BIT_DC_OVERVOLTAGE}, DC_OVERVOLTAGE,
                  <<Raise(DC_OVERVOLTAGE, "Warning")>>)
       ELSE Block({}, NONE, <<Clear(DC_OVERVOLTAGE)>>),
       \* ROCOF
       IF Abs(s.snap_rocof) > ROCOF_LIMIT
       THEN Block({BIT_ROCOF_TRIP}, ROCOF_TRIP, <<Raise(ROCOF_TRIP, "Critical")>>)
       ELSE Block({}, NONE, <<Clear(ROCOF_TRIP)>>) >>

\* new_flags, fault_code and the helper calls after the first n blocks.
RECURSIVE AlarmLogic(_, _)
AlarmLogic(blocks, n) ==
    IF n = 0 THEN [new_flags |-> {}, fault_code |-> NONE, calls |-> <<>>]
    ELSE LET before == AlarmLogic(blocks, n - 1)
             b == blocks[n]
         IN [ new_flags |-> before.new_flags \cup b.flags,
              fault_code |-> IF b.fault = NONE THEN before.fault_code
                             ELSE try_set_fault(before.fault_code, b.fault),
              calls |-> before.calls \o b.calls ]

\* ------------------------------------------------ alarm registry helpers
HasActive(registry, plant_id, code) ==
    \E i \in 1..Len(registry) :
        /\ registry[i].plant_id = plant_id
        /\ registry[i].code = code
        /\ registry[i].active

\* Faulty variant of raise_alarm: the de-duplication test is left out.
RaiseAlarmLocked_NoDedup(registry, id, plant_id, code, severity) ==
    LET pushed == Append(registry,
                         [ id |-> id, plant_id |-> plant_id, code |-> code,
                           severity |-> severity, active |-> TRUE,
                           cleared_at |-> "None" ])
    IN [ alarms |-> IF Len(pushed) > MAX_ALARM_HISTORY
                    THEN Tail(pushed) ELSE pushed,
         raised |-> TRUE ]

\* Faulty variant of raise_alarm: a full history drops the new alarm.
RaiseAlarmLocked_DropsNewest(registry, id, plant_id, code, severity) ==
    IF HasActive(registry, plant_id, code)
    THEN [alarms |-> registry, raised |-> FALSE]
    ELSE LET pushed == Append(registry,
                              [ id |-> id, plant_id |-> plant_id, code |-> code,
                                severity |-> severity, active |-> TRUE,
                                cleared_at |-> "None" ])
         IN [ alarms |-> IF Len(pushed) > MAX_ALARM_HISTORY
                         THEN registry ELSE pushed,
              raised |-> TRUE ]

\* raise_alarm while the alarms lock is held.  id stands for the new UUID.
RaiseAlarmLocked(registry, id, plant_id, code, severity) ==
    IF HasActive(registry, plant_id, code)
    THEN [alarms |-> registry, raised |-> FALSE]
    ELSE LET pushed == Append(registry,
                              [ id |-> id, plant_id |-> plant_id, code |-> code,
                                severity |-> severity, active |-> TRUE,
                                cleared_at |-> "None" ])
         IN [ alarms |-> IF Len(pushed) > MAX_ALARM_HISTORY
                         THEN Tail(pushed) ELSE pushed,
              raised |-> TRUE ]

\* Faulty variant of clear_alarm: cleared_at is not set.
ClearAlarmLocked_NoTimestamp(registry, plant_id, code) ==
    [ alarms |-> [ i \in 1..Len(registry) |->
                     IF /\ registry[i].plant_id = plant_id
                        /\ registry[i].code = code
                        /\ registry[i].active
                     THEN [registry[i] EXCEPT !.active = FALSE]
                     ELSE registry[i] ],
      cleared |-> HasActive(registry, plant_id, code) ]

\* clear_alarm while the alarms lock is held.
ClearAlarmLocked(registry, plant_id, code) ==
    [ alarms |-> [ i \in 1..Len(registry) |->
                     IF /\ registry[i].plant_id = plant_id
                        /\ registry[i].code = code
                        /\ registry[i].active
                     THEN [registry[i] EXCEPT !.active = FALSE,
                                              !.cleared_at = "Some"]
                     ELSE registry[i] ],
      cleared |-> HasActive(registry, plant_id, code) ]

\* Faulty variant of clear_plant_alarms: the plant is not compared.
ClearPlantAlarmsLocked_AllPlants(registry, plant_id) ==
    [ i \in 1..Len(registry) |->
        IF registry[i].active
        THEN [registry[i] EXCEPT !.active = FALSE, !.cleared_at = "Some"]
        ELSE registry[i] ]

\* clear_plant_alarms.
ClearPlantAlarmsLocked(registry, plant_id) ==
    [ i \in 1..Len(registry) |->
        IF registry[i].plant_id = plant_id /\ registry[i].active
        THEN [registry[i] EXCEPT !.active = FALSE, !.cleared_at = "Some"]
        ELSE registry[i] ]

\* get_alarms(None); get_alarms(Some(id)) keeps the alarms of one plant.
RECURSIVE FilterPlant(_, _)
FilterPlant(registry, plant_id) ==
    IF registry = <<>> THEN <<>>
    ELSE IF Head(registry).plant_id = plant_id
    THEN <<Head(registry)>> \o FilterPlant(Tail(registry), plant_id)
    ELSE FilterPlant(Tail(registry), plant_id)

\* ------------------------------------------------------ event log helpers
\* An Event: id stands for the UUID (ids are handed out in push order),
\* plant_id 0 is None, code / mode are what the message text carries.
NewEvent(id, plant_id, kind, code, mode) ==
    [id |-> id, plant_id |-> plant_id, kind |-> kind, code |-> code, mode |-> mode]

\* Faulty variant of push_event: the new event goes to the back.
PushEventLocked_Back(log, ev) ==
    LET pushed == log \o <<ev>>
    IN IF Len(pushed) > MAX_EVENT_LOG
       THEN SubSeq(pushed, 1, Len(pushed) - 1)
       ELSE pushed

\* push_event while the events lock is held: push_front, then pop_back.
PushEventLocked(log, ev) ==
    LET pushed == <<ev>> \o log
    IN IF Len(pushed) > MAX_EVENT_LOG
       THEN SubSeq(pushed, 1, Len(pushed) - 1)
       ELSE pushed

\* get_events(limit): log.iter().take(limit).
RECURSIVE get_events(_, _)
get_events(log, limit) ==
    IF limit = 0 \/ log = <<>> THEN <<>>
    ELSE <<Head(log)>> \o get_events(Tail(log), limit - 1)


\* ------------------------------------------------------------ estimates
\* Results of solar_algorithm::estimate as get_offline_data hands them to
\* set_data: a night and a day sample (power_kw is the DC estimate).
NightEstimate ==
    [ power_kw |-> 0, temperature_c |-> 10000, ambient_temp_c |-> 10000,
      is_day |-> FALSE, poa_irradiance_w_m2 |-> 0,
      solar_elevation_deg |-> -30000, relative_humidity_pct |-> 70000,
      src |-> "offline" ]

DayEstimate ==
    [ power_kw |-> 60000, temperature_c |-> 45000, ambient_temp_c |-> 25000,
      is_day |-> TRUE, poa_irradiance_w_m2 |-> 700000,
      solar_elevation_deg |-> 50000, relative_humidity_pct |-> 40000,
      src |-> "offline" ]

OfflineEstimates == { NightEstimate, DayEstimate }

\* Dusk: the sun is up, the irradiance lies between IRRAD_STOP_W_M2 and
\* IRRAD_START_W_M2.
DuskEstimate ==
    [ power_kw |-> 3000, temperature_c |-> 15000, ambient_temp_c |-> 14000,
      is_day |-> TRUE, poa_irradiance_w_m2 |-> 40000,
      solar_elevation_deg |-> 3000, relative_humidity_pct |-> 60000,
      src |-> "offline" ]

\* A winter night at high latitude: the cells are at -12 C.
ColdNightEstimate ==
    [ power_kw |-> 0, temperature_c |-> -12000, ambient_temp_c |-> -12000,
      is_day |-> FALSE, poa_irradiance_w_m2 |-> 0,
      solar_elevation_deg |-> -30000, relative_humidity_pct |-> 80000,
      src |-> "offline" ]

\* A damp dawn: the sun just above the horizon, the humidity at its
\* maximum of 98 %.
HumidDawnEstimate ==
    [ power_kw |-> 100, temperature_c |-> 9000, ambient_temp_c |-> 9000,
      is_day |-> TRUE, poa_irradiance_w_m2 |-> 2000,
      solar_elevation_deg |-> 500, relative_humidity_pct |-> 98000,
      src |-> "offline" ]

\* A clear, cold and windy noon: cold cells under 980 W/m2 deliver more
\* than the nominal power.
BrightColdEstimate ==
    [ power_kw |-> 105000, temperature_c |-> 7000, ambient_temp_c |-> -10000,
      is_day |-> TRUE, poa_irradiance_w_m2 |-> 980000,
      solar_elevation_deg |-> 30000, relative_humidity_pct |-> 50000,
      src |-> "offline" ]

\* Bodies the weather endpoint may answer with (shortwave_radiation,
\* temperature_2m, is_day).
WeatherResponses ==
    { [shortwave_radiation |-> 700000, temperature_2m |-> 25000, is_day |-> 1] }

\* A cold, very bright hour: 1200 W/m2 at -20 C.
ColdBrightResponse ==
    [shortwave_radiation |-> 1200000, temperature_2m |-> -20000, is_day |-> 1]

\* --------------------------------------------- the offline estimator
\* What solar_algorithm::estimate computes from trigonometry and from its
\* climatological helpers, for one (latitude, longitude, timestamp): the
\* elevation and its sine, what the clear-sky formulae give for that
\* elevation, the incidence term, cos(tilt), the cloud sum before its clamp,
\* ambient temperature, wind speed, soiling and humidity.
SkyInput(alpha_deg, sin_alpha, cos_incidence, cloud) ==
    [ alpha_deg |-> alpha_deg, sin_alpha |-> sin_alpha, dni_cs |-> 900000,
      dhi_cs |-> 100000, cos_incidence |-> cos_incidence, cos_tilt |-> 707,
      cloud |-> cloud, ambient_temp_c |-> 10000, wind_speed |-> 3000,
      soiling_factor |-> 950, relative_humidity |-> 60000 ]

\* Deep night, the horizon, the 0.1 degree threshold, just above it, and
\* a high sun under a thin and under a heavy cloud.
SkyInputs ==
    { SkyInput(-30000, -500, 300, 800), SkyInput(0, 0, 700, 800),
      SkyInput(100, 2, 700, 800), SkyInput(200, 3, 700, 800),
      SkyInput(50000, 766, 950, 800), SkyInput(50000, 766, 950, 20) }

\* Faulty variant of estimate: the clear-sky formulae are applied at any
\* elevation and is_day looks at the irradiance only.
estimate_NoNightBranch(i, nominal) ==
    LET sin_alpha == i.sin_alpha
        \* 4. clear-sky model
        dni_cs == IF TRUE THEN i.dni_cs ELSE 0
        ghi_cs == IF TRUE
                  THEN Max(Div(i.dni_cs * sin_alpha, 1000) + i.dhi_cs, 0) ELSE 0
        \* 5. panel tilt / POA irradiance
        cos_theta == IF TRUE THEN Max(i.cos_incidence, 0) ELSE 0
        beam_poa == Div(dni_cs * cos_theta, 1000)
        dhi_cs == Max(ghi_cs - Div(dni_cs * Max(sin_alpha, 0), 1000), 0)
        diffuse_poa == Div(dhi_cs * (1000 + i.cos_tilt), 2000)
        reflected_poa == Div(Div(ghi_cs * 200, 1000) * (1000 - i.cos_tilt), 2000)
        ghi_poa_cs == Max(beam_poa + diffuse_poa + reflected_poa, 0)
        \* 6. cloud attenuation
        cloud_factor == Clamp(i.cloud, 50, 1000)
        ghi_poa == Div(ghi_poa_cs * cloud_factor, 1000)
        \* 8. cell temperature (Faiman), 9. DC power
        cell_temp == i.ambient_temp_c
                     + Div(ghi_poa * 1000, 25000 + Div(6840 * i.wind_speed, 1000))
        temp_factor == 1000 + Div(-4 * (cell_temp - 25000), 1000)
        effective_ghi == Div(ghi_poa * i.soiling_factor, 1000)
        power_kw == Max(Div(Div(nominal * Div(effective_ghi, 1000), 1000)
                              * temp_factor, 1000), 0)
    IN [ power_kw |-> power_kw, ghi_w_m2 |-> ghi_poa, cell_temp_c |-> cell_temp,
         ambient_temp_c |-> i.ambient_temp_c,
         is_day |-> ghi_poa > 500,
         solar_elevation_deg |-> i.alpha_deg,
         relative_humidity_pct |-> i.relative_humidity ]

\* solar_algorithm::estimate, steps 4 to 9 and is_day.
estimate(i, nominal) ==
    LET sin_alpha == i.sin_alpha
        \* 4. clear-sky model
        dni_cs == IF i.alpha_deg > 100 THEN i.dni_cs ELSE 0
        ghi_cs == IF i.alpha_deg > 100
                  THEN Max(Div(i.dni_cs * sin_alpha, 1000) + i.dhi_cs, 0) ELSE 0
        \* 5. panel tilt / POA irradiance
        cos_theta == IF i.alpha_deg > 100 THEN Max(i.cos_incidence, 0) ELSE 0
        beam_poa == Div(dni_cs * cos_theta, 1000)
        dhi_cs == Max(ghi_cs - Div(dni_cs * Max(sin_alpha, 0), 1000), 0)
        diffuse_poa == Div(dhi_cs * (1000 + i.cos_tilt), 2000)
        reflected_poa == Div(Div(ghi_cs * 200, 1000) * (1000 - i.cos_tilt), 2000)
        ghi_poa_cs == Max(beam_poa + diffuse_poa + reflected_poa, 0)
        \* 6. cloud attenuation
        cloud_factor == Clamp(i.cloud, 50, 1000)
        ghi_poa == Div(ghi_poa_cs * cloud_factor, 1000)
        \* 8. cell temperature (Faiman), 9. DC power
        cell_temp == i.ambient_temp_c
                     + Div(ghi_poa * 1000, 25000 + Div(6840 * i.wind_speed, 1000))
        temp_factor == 1000 + Div(-4 * (cell_temp - 25000), 1000)
        effective_ghi == Div(ghi_poa * i.soiling_factor, 1000)
        power_kw == Max(Div(Div(nominal * Div(effective_ghi, 1000), 1000)
                              * temp_factor, 1000), 0)
    IN [ power_kw |-> power_kw, ghi_w_m2 |-> ghi_poa, cell_temp_c |-> cell_temp,
         ambient_temp_c |-> i.ambient_temp_c,
         is_day |-> i.alpha_deg > 0 /\ ghi_poa > 500,
         solar_elevation_deg |-> i.alpha_deg,
         relative_humidity_pct |-> i.relative_humidity ]

\* get_offline_data: the SimulationData made of an estimate.
get_offline_data(i, nominal) ==
    LET est == estimate(i, nominal)
    IN [ power_kw |-> est.power_kw, temperature_c |-> est.cell_temp_c,
         ambient_temp_c |-> est.ambient_temp_c, is_day |-> est.is_day,
         poa_irradiance_w_m2 |-> est.ghi_w_m2,
         solar_elevation_deg |-> est.solar_elevation_deg,
         relative_humidity_pct |-> est.relative_humidity_pct,
         src |-> "offline" ]

\* T_cell = T_ambient + (NOCT - 20) * (G / 800)
estimate_cell_temperature(ambient_temp_c, g_w_m2) ==
    ambient_temp_c + Div((45 - 20) * g_w_m2, 800)

estimate_power_kw_from_radiation(g_w_m2, nominal, cell_temp_c) ==
    LET temp_factor == 1000 + Div(-4 * (cell_temp_c - 25000), 1000)
    IN Max(Div(Div(nominal * Div(g_w_m2, 1000), 1000) * temp_factor, 1000), 0)

\* get_current_data, the Ok(resp) branch.
OnlineEstimate(resp, nominal) ==
    LET g == resp.shortwave_radiation
        cell_temp == estimate_cell_temperature(resp.temperature_2m, g)
    IN [ power_kw |-> estimate_power_kw_from_radiation(g, nominal, cell_temp),
         temperature_c |-> cell_temp,
         ambient_temp_c |-> resp.temperature_2m,
         is_day |-> resp.is_day = 1,
         poa_irradiance_w_m2 |-> g,
         solar_elevation_deg |-> 0,
         relative_humidity_pct |-> 50000,
         src |-> "online" ]

\* det_hash values of one set_data call, per mille.  det_hash is a hash of
\* (plant_id, time window); the model lets each call see any of the
\* combinations below: quiet grid, a voltage swell, a voltage sag.
QuietHash ==
    [ ot |-> 500, swell |-> 500, sag |-> 500, freq_hi |-> 500, freq_lo |-> 500,
      v_drift |-> 600, rip |-> 500, ph |-> 500, ph2 |-> 500, f_drift |-> 500,
      frip |-> 500, wet |-> 500, leak |-> 500, fan |-> 500 ]

SwellHash == [QuietHash EXCEPT !.swell = 10]

SagHash == [QuietHash EXCEPT !.sag = 10]

HashValues == { QuietHash, SwellHash, SagHash }

\* A voltage swell together with an over-frequency event.
SwellOverFreqHash == [SwellHash EXCEPT !.freq_hi = 10]

\* An under-frequency event at its far end (49.217 Hz), an over-frequency
\* event at its far end (50.783 Hz).
UnderFreqHash == [QuietHash EXCEPT !.freq_lo = 14]
OverFreqHash == [QuietHash EXCEPT !.freq_hi = 14]

\* A wet-day isolation collapse with the largest leakage noise, an
\* overtemperature event, a fan failure, and all of them in a swell with
\* an over-frequency.
WetHash == [QuietHash EXCEPT !.wet = 0, !.leak = 999]
HotHash == [QuietHash EXCEPT !.ot = 2]
FanFailHash == [QuietHash EXCEPT !.fan = 5]
StormHash == [SwellOverFreqHash EXCEPT !.wet = 0, !.leak = 999, !.ot = 2,
                                       !.fan = 5]

FaultHashes ==
    { QuietHash, SwellHash, SagHash, SwellOverFreqHash, UnderFreqHash,
      OverFreqHash, WetHash, HotHash, FanFailHash, StormHash }

\* A window in which the grid frequency has drifted down (49.984 Hz).
DriftHash == [QuietHash EXCEPT !.f_drift = 400]

\* ------------------------------------------------------ Modbus projection
\* A u32 is kept as its 32 bits, most significant first.
\* The k low bits of n.
RECURSIVE Bits(_, _)
Bits(n, k) == IF k = 0 THEN <<>> ELSE Bits(n \div 2, k - 1) \o <<n % 2>>

\* The number a bit string stands for.
RECURSIVE BitsValue(_)
BitsValue(b) ==
    IF b = <<>> THEN 0
    ELSE 2 * BitsValue(SubSeq(b, 1, Len(b) - 1)) + b[Len(b)]

\* (x as f32).to_bits() for the rational x = num / den: sign, biased
\* exponent and 23 fraction bits with round-to-nearest-even.
RECURSIVE Normalise(_, _, _)
Normalise(n, d, e) ==
    IF n >= 2 * d THEN Normalise(n, 2 * d, e + 1)
    ELSE IF n < d THEN Normalise(2 * n, d, e - 1)
    ELSE [n |-> n, d |-> d, e |-> e]

RECURSIVE MantissaBits(_, _, _, _)
MantissaBits(r, d, k, acc) ==
    IF k = 0 THEN [m |-> acc, r |-> r]
    ELSE IF r >= d THEN MantissaBits(2 * (r - d), d, k - 1, 2 * acc + 1)
    ELSE MantissaBits(2 * r, d, k - 1, 2 * acc)

to_bits(num, den) ==
    IF num = 0 THEN Bits(0, 32)
    ELSE LET sign == IF num < 0 THEN 1 ELSE 0
             nz == Normalise(Abs(num), den, 0)
             mb == MantissaBits(nz.n, nz.d, 24, 0)
             up == mb.r > nz.d \/ (mb.r = nz.d /\ mb.m % 2 = 1)
             m1 == IF up THEN mb.m + 1 ELSE mb.m
             carry == m1 = Pow2(24)
             frac == IF carry THEN 0 ELSE m1 - Pow2(23)
             biased == nz.e + 127 + (IF carry THEN 1 ELSE 0)
         IN Bits(sign, 1) \o Bits(biased, 8) \o Bits(frac, 23)

\* Faulty variant of float_to_words: low word first.
float_to_words_LowFirst(bits) ==
    << BitsValue(SubSeq(bits, 17, 32)), BitsValue(SubSeq(bits, 1, 16)) >>

\* float_to_words: ((bits >> 16) as u16, (bits & 0xFFFF) as u16).
float_to_words(bits) ==
    << BitsValue(SubSeq(bits, 1, 16)), BitsValue(SubSeq(bits, 17, 32)) >>

\* Register offsets relative to the plant's base_address.
REG_POWER_KW == 0
REG_VOLTAGE_L1_V == 2
REG_FREQUENCY_HZ == 6
REG_TEMPERATURE_C == 8
REG_STATUS == 10
REG_VOLTAGE_L2_V == 11
REG_VOLTAGE_L3_V == 13
REG_ROCOF_HZ_S == 25
REG_INVERTER_TEMP_C == 37
REG_FAULT_CODE == 55
REG_ALARM_FLAGS == 56
REG_TOTAL_ENERGY_KWH == 61

\* ModbusMapping.base_address of plant p: one 100-register block each.
base_address(p) == (p - 1) * 100

FloatRegs ==
    << <<REG_POWER_KW, "PowerKw">>, <<REG_VOLTAGE_L1_V, "VoltageL1V">>,
       <<REG_FREQUENCY_HZ, "FrequencyHz">>, <<REG_TEMPERATURE_C, "TemperatureC">>,
       <<REG_VOLTAGE_L2_V, "VoltageL2V">>, <<REG_VOLTAGE_L3_V, "VoltageL3V">>,
       <<REG_ROCOF_HZ_S, "RocofHzS">>, <<REG_INVERTER_TEMP_C, "InverterTempC">>,
       <<REG_TOTAL_ENERGY_KWH, "TotalEnergyKwh">> >>

WordRegs ==
    << <<REG_STATUS, "Status">>, <<REG_FAULT_CODE, "FaultCode">>,
       <<REG_ALARM_FLAGS, "AlarmFlags">> >>

\* The register map main builds with ins_f! / ins_u! (for the fields the
\* model keeps): address -> <<plant, variable, word index>>.
register_map ==
    LET entries ==
            { <<base_address(p) + FloatRegs[i][1] + w, <<p, FloatRegs[i][2], w>>>> :
                p \in Plants, i \in 1..Len(FloatRegs), w \in {0, 1} }
            \cup
            { <<base_address(p) + WordRegs[i][1], <<p, WordRegs[i][2], 0>>>> :
                p \in Plants, i \in 1..Len(WordRegs) }
    IN [ a \in { e[1] : e \in entries } |->
            (CHOOSE e \in entries : e[1] = a)[2] ]

\* `let f: f32 = match var_type { .. }` of resolve: the field a float
\* register stands for, cast to f32 (as its bits).
as_f32(var_type, data) ==
    IF var_type = "PowerKw" THEN to_bits(data.power_kw, 1000)
    ELSE IF var_type = "VoltageL1V" THEN to_bits(data.voltage_l1_v, 1000)
    ELSE IF var_type = "VoltageL2V" THEN to_bits(data.voltage_l2_v, 1000)
    ELSE IF var_type = "VoltageL3V" THEN to_bits(data.voltage_l3_v, 1000)
    ELSE IF var_type = "FrequencyHz" THEN to_bits(data.frequency_hz, 1000)
    ELSE IF var_type = "RocofHzS" THEN to_bits(data.rocof_hz_s, 1000)
    ELSE IF var_type = "TemperatureC" THEN to_bits(data.temperature_c, 1000)
    ELSE IF var_type = "InverterTempC" THEN to_bits(data.inverter_temp_c, 1000)
    ELSE to_bits(data.total_energy_kwh, 3600000)

\* The closure `resolve` of MbService::call, given what get_data returned
\* for the register's plant (data: the clone).
ResolveWord(var_type, word_idx, data) ==
    IF var_type = "Status" THEN data.status
    ELSE IF var_type = "FaultCode" THEN data.fault_code
    ELSE IF var_type = "AlarmFlags" THEN FlagsValue(data.alarm_flags) % 65536
    ELSE LET words == float_to_words(as_f32(var_type, data))
         IN IF word_idx = 0 THEN words[1] ELSE words[2]


\* ================================================================== state
VARIABLES
    plant_data,     \* AppState.plant_data: plant id -> PlantData (a HashMap)
    prev_freq,      \* AppState.prev_freq: plant id -> previous frequency
    alarms,         \* AppState.alarms: the Vec<Alarm>, oldest first
    events,         \* AppState.events: the VecDeque<Event>, newest first
    offline_mode,   \* AppState.offline_mode
    next_alarm_id,  \* the UUID the next Alarm gets (ids count the alarms made)
    next_event_id,  \* the UUID the next Event gets (ids count the events made)
    today,          \* chrono::Utc::now().ordinal()
    pc,             \* position of each plant's update task
    loc,            \* locals of each plant's update task
    ticks,          \* set_data calls each plant's task has completed
    net_requests,   \* HTTP requests each plant's task has issued
    op,             \* the HTTP handler of an operator request
    ops,            \* operator requests issued so far
    obs,            \* what the last get_data of a reader returned
    pre,            \* each plant's get_data result when its last set_data began
    mb,             \* the Modbus request being served
    inputs,         \* what the environment may hand to the tasks, whether
                    \* the build checks integer overflow, and the locks a
                    \* crashed writer has left poisoned (never changes)
    lk              \* the lock view: what each process holds and has to do

vars == << plant_data, prev_freq, alarms, events, offline_mode, next_alarm_id,
           next_event_id, today, pc, loc, ticks, net_requests, op, ops, obs,
           pre, mb, inputs, lk >>

NoEst == [absent |-> TRUE]
NoSnap == [absent |-> TRUE]
NoEvent == [absent |-> TRUE]
BlankLoc == [offline |-> FALSE, est |-> NoEst, snap |-> NoSnap,
             calls |-> <<>>, pending |-> NoEvent]
NoObs == [plant |-> 0, rec |-> NoData, mid |-> FALSE, tick |-> 0]
IdleMb == [pc |-> "idle", fn |-> "-", addr |-> 0, cnt |-> 0, regs |-> <<>>,
           seen |-> <<>>, result |-> "-"]

\* The locks of AppState a writer can leave poisoned: a panic under the
\* write guard (chrono::Utc::now() with a clock before 1970, Uuid::new_v4()
\* without a random source) poisons the RwLock for good.
Locks == { "plant_data", "alarms", "events" }

\* lock.write() / lock.read() returns Err.
Poisoned(lock) == lock \in inputs.poisoned

\* AppState::get_data: Some(clone) or None; None also when the read lock
\* is poisoned (.ok()?).
get_data(map, plant_id) ==
    IF plant_id \in DOMAIN map /\ ~Poisoned("plant_data") THEN map[plant_id]
    ELSE NoData

\* HashMap::insert / entry().or_default() followed by the stores.
MapPut(map, k, v) ==
    [ x \in DOMAIN map \cup {k} |-> IF x = k THEN v ELSE map[x] ]

\* The functions MbService::call serves.
ReadFunctions == { "ReadInputRegisters", "ReadHoldingRegisters" }

\* Read requests a Modbus client sends: <<function, address, count>>.
MbRequests ==
    { <<"ReadInputRegisters", base_address(1) + REG_POWER_KW, 2>>,
      <<"ReadHoldingRegisters", base_address(2) + REG_VOLTAGE_L1_V, 2>> }

\* Requests of a client that reads past the end of plant 1's block into
\* plant 2's, a negative float, the last address, nothing at all, and that
\* tries to write.
ModbusRequests ==
    { <<"ReadInputRegisters", base_address(1) + REG_TOTAL_ENERGY_KWH + 1, 39>>,
      <<"ReadHoldingRegisters", base_address(1) + REG_ROCOF_HZ_S, 2>>,
      <<"ReadInputRegisters", base_address(1) + REG_POWER_KW, 2>>,
      <<"ReadInputRegisters", 65535, 2>>,
      <<"ReadHoldingRegisters", 0, 0>>,
      <<"WriteSingleRegister", base_address(1) + REG_STATUS, 1>> }

\* Everything the environment can hand to the tasks.
AllInputs ==
    [ estimates |-> OfflineEstimates, weather |-> WeatherResponses,
      hashes |-> HashValues, requests |-> MbRequests,
      overflow_checks |-> FALSE, poisoned |-> {} ]

\* ------------------------------------------------------- the lock view
\* The operations of AppState seen as the lock events they perform, in
\* program order.  (The actions below run each critical section as one
\* step; here a critical section is an acquire, a wait and a release.)
LockNames == Locks \cup { "prev_freq" }

\* The update tasks, a reader (HTTP, Modbus, MQTT) and the operator.
Reader == NumPlants + 1
Operator == NumPlants + 2
Procs == 1..(NumPlants + 2)

\* lock.read() / lock.write(), the end of the guard's scope (or drop), and
\* a part of the operation that runs only on one side of a branch.
Acq(lock, mode) == [ev |-> "acq", lock |-> lock, mode |-> mode, sub |-> << >>]
Rel(lock) == [ev |-> "rel", lock |-> lock, mode |-> "-", sub |-> << >>]
Branch(sub) == [ev |-> "branch", lock |-> "-", mode |-> "-", sub |-> sub]

push_event_locks == << Acq("events", "write"), Rel("events") >>

\* raise_alarm and clear_alarm: the alarms guard is dropped (or the
\* de-duplication returns) before push_event, which runs only when the
\* registry changed.
helper_locks ==
    << Acq("alarms", "write"), Rel("alarms"), Branch(push_event_locks) >>

\* The helper calls of step 11 of one set_data call.
HelperCalls ==
    LET r == SetDataLocked(DefaultPlantData, FALSE, 0, nominal_power_kw(1),
                           DayEstimate, QuietHash, 1)
    IN Len(AlarmLogic(AlarmBlocks(r.snap), Len(AlarmBlocks(r.snap))).calls)

RECURSIVE helpers_locks(_)
helpers_locks(n) ==
    IF n = 0 THEN << >> ELSE helper_locks \o helpers_locks(n - 1)

\* Faulty variant of set_data: no drop(map) before the alarm helpers.
set_data_locks_NoDrop ==
    << Acq("plant_data", "write"),
       Acq("prev_freq", "read"), Rel("prev_freq"),
       Acq("prev_freq", "write"), Rel("prev_freq") >>
    \o helpers_locks(HelperCalls)
    \o << Acq("plant_data", "write"), Rel("plant_data") >>

\* set_data: the first critical section with the two prev_freq guards
\* inside, drop(map), the helpers, the write-back.
set_data_locks ==
    << Acq("plant_data", "write"),
       Acq("prev_freq", "read"), Rel("prev_freq"),
       Acq("prev_freq", "write"), Rel("prev_freq"),
       Rel("plant_data") >>
    \o helpers_locks(HelperCalls)
    \o << Acq("plant_data", "write"), Rel("plant_data") >>

get_data_locks == << Acq("plant_data", "read"), Rel("plant_data") >>
get_alarms_locks == << Acq("alarms", "read"), Rel("alarms") >>
get_events_locks == << Acq("events", "read"), Rel("events") >>
clear_plant_alarms_locks == << Acq("alarms", "write"), Rel("alarms") >>

\* What a process may call: a task set_data, the reader get_data
\* (get_all_data takes the same lock), get_alarms and get_events, the
\* operator clear_plant_alarms and set_offline (a push_event).
Operations(proc) ==
    IF proc = Reader
    THEN { get_data_locks, get_alarms_locks, get_events_locks }
    ELSE IF proc = Operator
    THEN { clear_plant_alarms_locks, push_event_locks }
    ELSE { set_data_locks }

NoLocks == [proc \in Procs |-> [todo |-> << >>, holds |-> {}]]

\* RwLock: a writer needs the lock free, a reader needs it free of writers.
Free(lock, mode) ==
    \A q \in Procs : \A h \in lk[q].holds :
        h[1] = lock => (mode = "read" /\ h[2] = "read")

\* AppState::new(offline_mode_default): empty maps, no alarms, no events.
\* The tasks of main have been spawned and none has run yet.
Started ==
    /\ plant_data = << >>
    /\ prev_freq = << >>
    /\ alarms = << >>
    /\ events = << >>
    /\ offline_mode \in BOOLEAN
    /\ next_alarm_id = 1
    /\ next_event_id = 1
    /\ today = 1
    /\ pc = [p \in Plants |-> "idle"]
    /\ loc = [p \in Plants |-> BlankLoc]
    /\ ticks = [p \in Plants |-> 0]
    /\ net_requests = [p \in Plants |-> 0]
    /\ op = [pc |-> "idle", value |-> FALSE]
    /\ ops = 0
    /\ obs = NoObs
    /\ pre = [p \in Plants |-> NoData]
    /\ mb = IdleMb
    /\ lk = NoLocks

Init ==
    /\ Started
    /\ \E oc \in BOOLEAN : inputs = [AllInputs EXCEPT !.overflow_checks = oc]

\* ------------------------------------------- the per-plant update task
\* Faulty variant of the loop top: the offline flag is not consulted.
TickBegin_AlwaysOnline(p) ==
    /\ pc[p] \in {"idle", "sleep"}
    /\ ticks[p] < MaxTicks
    /\ loc' = [loc EXCEPT ![p] = BlankLoc]
    /\ pc' = [pc EXCEPT ![p] = "fetching"]
    /\ net_requests' = [net_requests EXCEPT ![p] = @ + 1]
    /\ UNCHANGED << plant_data, prev_freq, alarms, events, offline_mode,
                    next_alarm_id, next_event_id, today, ticks, op, ops, obs,
                    pre, mb, inputs, lk >>

\* main, loop top (at start-up, or when the 5 s sleep is over): is_offline();
\* offline -> get_offline_data (no request), online -> get_current_data
\* issues the HTTP request and awaits it.
TickBegin(p) ==
    /\ pc[p] \in {"idle", "sleep"}
    /\ ticks[p] < MaxTicks
    /\ IF offline_mode
       THEN /\ \E e \in inputs.estimates :
                 loc' = [loc EXCEPT ![p] = [BlankLoc EXCEPT !.offline = TRUE,
                                                            !.est = e]]
            /\ pc' = [pc EXCEPT ![p] = "set_data"]
            /\ UNCHANGED net_requests
       ELSE /\ loc' = [loc EXCEPT ![p] = BlankLoc]
            /\ pc' = [pc EXCEPT ![p] = "fetching"]
            /\ net_requests' = [net_requests EXCEPT ![p] = @ + 1]
    /\ UNCHANGED << plant_data, prev_freq, alarms, events, offline_mode,
                    next_alarm_id, next_event_id, today, ticks, op, ops, obs,
                    pre, mb, inputs, lk >>

\* get_current_data: the request succeeded and the body parsed.
FetchOk(p) ==
    /\ pc[p] = "fetching"
    /\ \E resp \in inputs.weather :
          loc' = [loc EXCEPT ![p].est = OnlineEstimate(resp, nominal_power_kw(p))]
    /\ pc' = [pc EXCEPT ![p] = "set_data"]
    /\ UNCHANGED << plant_data, prev_freq, alarms, events, offline_mode,
                    next_alarm_id, next_event_id, today, ticks, net_requests,
                    op, ops, obs, pre, mb, inputs, lk >>

\* Faulty variant of the failure path: the error is handed to main, which
\* logs it and skips set_data.
FetchFail_SkipsTick(p) ==
    /\ pc[p] = "fetching"
    /\ pc' = [pc EXCEPT ![p] = "sleep"]
    /\ UNCHANGED << plant_data, prev_freq, alarms, events, offline_mode,
                    next_alarm_id, next_event_id, today, loc, ticks,
                    net_requests, op, ops, obs, pre, mb, inputs, lk >>

\* get_current_data: the request (Err of reqwest::get) or the parse (Err of
\* response.json) failed; both fall through to get_offline_data.
FetchFail(p) ==
    /\ pc[p] = "fetching"
    /\ \E e \in inputs.estimates : loc' = [loc EXCEPT ![p].est = e]
    /\ pc' = [pc EXCEPT ![p] = "set_data"]
    /\ UNCHANGED << plant_data, prev_freq, alarms, events, offline_mode,
                    next_alarm_id, next_event_id, today, ticks, net_requests,
                    op, ops, obs, pre, mb, inputs, lk >>

\* Where the task goes after a helper call: push the event, next call, or
\* the write-back.
AfterCall(pending, calls) ==
    IF pending # NoEvent THEN "event"
    ELSE IF calls = <<>> THEN "write_back"
    ELSE "alarms"

\* A clear_alarm(p, code) that finds no active alarm of (p, code) changes
\* nothing and pushes no event.  Only p's own task makes an alarm of p
\* active, and a code occurs once in the calls of a tick, so such a call
\* finds nothing whenever it runs: it commutes with every step of the other
\* tasks.  The model runs these calls together with the step before them.
RECURSIVE SkipIdleClears(_, _, _)
SkipIdleClears(calls, registry, p) ==
    IF calls = <<>> THEN calls
    ELSE IF Head(calls).op = "clear" /\ ~HasActive(registry, p, Head(calls).code)
    THEN SkipIdleClears(Tail(calls), registry, p)
    ELSE calls

\* set_data, first critical section (plant_data write lock, prev_freq inside).
\* With the lock poisoned the call returns at once and the loop sleeps.
SetDataDerive(p) ==
    /\ pc[p] = "set_data"
    /\ IF Poisoned("plant_data")
       THEN /\ pc' = [pc EXCEPT ![p] = "sleep"]
            /\ ticks' = [ticks EXCEPT ![p] = @ + 1]
            /\ UNCHANGED << plant_data, prev_freq, loc >>
       ELSE /\ \E h \in inputs.hashes :
              LET data0 == IF p \in DOMAIN plant_data THEN plant_data[p]
                           ELSE DefaultPlantData
                  r == SetDataLocked(data0, p \in DOMAIN prev_freq,
                                     IF p \in DOMAIN prev_freq THEN prev_freq[p]
                                     ELSE 0,
                                     nominal_power_kw(p), loc[p].est, h, today)
                  logic == AlarmLogic(AlarmBlocks(r.snap),
                                      Len(AlarmBlocks(r.snap)))
              IN /\ plant_data' = MapPut(plant_data, p, r.data)
                 /\ prev_freq' = MapPut(prev_freq, p, r.new_freq)
                 /\ LET calls == SkipIdleClears(logic.calls, alarms, p)
                    IN /\ loc' = [loc EXCEPT ![p].snap = r.snap,
                                             ![p].calls = calls]
                       /\ pc' = [pc EXCEPT ![p] = AfterCall(NoEvent, calls)]
            /\ UNCHANGED ticks
    /\ pre' = [pre EXCEPT ![p] = get_data(plant_data, p)]
    /\ UNCHANGED << alarms, events, offline_mode, next_alarm_id, next_event_id,
                    today, net_requests, op, ops, obs, mb, inputs, lk >>

\* set_data, step 11: the next raise_alarm / clear_alarm, its alarms-lock part.
\* With the alarms lock poisoned either helper returns at once.
AlarmCall(p) ==
    /\ pc[p] = "alarms"
    /\ LET c == Head(loc[p].calls)
       IN IF Poisoned("alarms")
          THEN /\ UNCHANGED << alarms, next_alarm_id >>
               /\ loc' = [loc EXCEPT ![p].calls = Tail(loc[p].calls)]
               /\ pc' = [pc EXCEPT
                           ![p] = AfterCall(NoEvent, Tail(loc[p].calls))]
          ELSE IF c.op = "raise"
          THEN LET r == RaiseAlarmLocked(alarms, next_alarm_id, p, c.code, c.severity)
                   rest == SkipIdleClears(Tail(loc[p].calls), r.alarms, p)
                   pend == IF r.raised
                           THEN [kind |-> "AlarmRaised", code |-> c.code]
                           ELSE NoEvent
               IN /\ alarms' = r.alarms
                  /\ next_alarm_id' = IF r.raised THEN next_alarm_id + 1
                                      ELSE next_alarm_id
                  /\ loc' = [loc EXCEPT ![p].calls = rest, ![p].pending = pend]
                  /\ pc' = [pc EXCEPT ![p] = AfterCall(pend, rest)]
          ELSE LET r == ClearAlarmLocked(alarms, p, c.code)
                   rest == SkipIdleClears(Tail(loc[p].calls), r.alarms, p)
                   pend == IF r.cleared
                           THEN [kind |-> "AlarmCleared", code |-> c.code]
                           ELSE NoEvent
               IN /\ alarms' = r.alarms
                  /\ UNCHANGED next_alarm_id
                  /\ loc' = [loc EXCEPT ![p].calls = rest, ![p].pending = pend]
                  /\ pc' = [pc EXCEPT ![p] = AfterCall(pend, rest)]
    /\ UNCHANGED << plant_data, prev_freq, events, offline_mode, next_event_id,
                    today, ticks, net_requests, op, ops, obs, pre, mb, inputs, lk >>

\* The push_event that ends raise_alarm / clear_alarm (alarms lock dropped).
\* With the events lock poisoned push_event returns at once.
AlarmEvent(p) ==
    /\ pc[p] = "event"
    /\ IF Poisoned("events")
       THEN UNCHANGED << events, next_event_id >>
       ELSE /\ events' = PushEventLocked(events,
                            NewEvent(next_event_id, p, loc[p].pending.kind,
                                     loc[p].pending.code, "-"))
            /\ next_event_id' = next_event_id + 1
    /\ loc' = [loc EXCEPT ![p].pending = NoEvent]
    /\ pc' = [pc EXCEPT ![p] = AfterCall(NoEvent, loc[p].calls)]
    /\ UNCHANGED << plant_data, prev_freq, alarms, offline_mode, next_alarm_id,
                    today, ticks, net_requests, op, ops, obs, pre, mb, inputs, lk >>

\* set_data, second critical section: fault code, flags, energy, KPIs.
WriteBackLocked(d, fault_code, new_flags, nominal) ==
    LET kwh_per_sample == d.power_kw * UPDATE_INTERVAL_S
        daily == d.daily_energy_kwh + kwh_per_sample
        ref_yield == Div(Div(d.poa_irradiance_w_m2, 1000) * nominal, 1000)
    IN [d EXCEPT
          !.fault_code = fault_code,
          !.alarm_flags = new_flags,
          !.daily_energy_kwh = daily,
          !.monthly_energy_kwh = @ + kwh_per_sample,
          !.total_energy_kwh = @ + kwh_per_sample,
          !.co2_avoided_kg = @ + Div(kwh_per_sample * 233, 1000),
          !.daily_peak_power_kw = IF d.power_kw > @ THEN d.power_kw ELSE @,
          !.performance_ratio =
              IF ref_yield > 100
              THEN Clamp(Div(d.power_kw * 1000, ref_yield), 0, 1000) ELSE 0,
          !.capacity_factor_percent =
              IF nominal > 0
              THEN Clamp(Div(d.power_kw * 1000, nominal) * 100, 0, 110000)
              ELSE 0]

WriteBack(p) ==
    /\ pc[p] = "write_back"
    /\ LET logic == AlarmLogic(AlarmBlocks(loc[p].snap),
                               Len(AlarmBlocks(loc[p].snap)))
       IN plant_data' =
            IF p \in DOMAIN plant_data /\ ~Poisoned("plant_data")
            THEN [plant_data EXCEPT ![p] =
                    WriteBackLocked(@, logic.fault_code, logic.new_flags,
                                    nominal_power_kw(p))]
            ELSE plant_data
    /\ pc' = [pc EXCEPT ![p] = "sleep"]
    /\ ticks' = [ticks EXCEPT ![p] = @ + 1]
    /\ UNCHANGED << prev_freq, alarms, events, offline_mode, next_alarm_id,
                    next_event_id, today, loc, net_requests, op, ops, obs, pre,
                    mb, inputs, lk >>

\* Midnight (UTC) passes.
Midnight ==
    /\ today <= MaxDays
    /\ today' = today + 1
    /\ UNCHANGED << plant_data, prev_freq, alarms, events, offline_mode,
                    next_alarm_id, next_event_id, pc, loc, ticks, net_requests,
                    op, ops, obs, pre, mb, inputs, lk >>


\* ------------------------------------------------------ operator requests
\* POST /api/settings/offline-mode -> set_offline(value): the store.
SetOfflineStore(value) ==
    /\ op.pc = "idle"
    /\ ops < MaxOps
    /\ offline_mode' = value
    /\ op' = [pc |-> "event", value |-> value]
    /\ ops' = ops + 1
    /\ UNCHANGED << plant_data, prev_freq, alarms, events, next_alarm_id,
                    next_event_id, today, pc, loc, ticks, net_requests, obs,
                    pre, mb, inputs, lk >>

\* set_offline(value): the push_event(None, ModeChange, ...), then return.
SetOfflineEvent ==
    /\ op.pc = "event"
    /\ IF Poisoned("events")
       THEN UNCHANGED << events, next_event_id >>
       ELSE /\ events' = PushEventLocked(events,
                            NewEvent(next_event_id, 0, "ModeChange", NONE,
                                     IF op.value THEN "OFFLINE" ELSE "ONLINE"))
            /\ next_event_id' = next_event_id + 1
    /\ op' = [op EXCEPT !.pc = "idle"]
    /\ UNCHANGED << plant_data, prev_freq, alarms, offline_mode, next_alarm_id,
                    today, pc, loc, ticks, net_requests, ops, obs, pre, mb, inputs, lk >>

\* DELETE /api/plants/{p}/alarms -> clear_plant_alarms(p).
ClearPlantAlarms(p) ==
    /\ op.pc = "idle"
    /\ ops < MaxOps
    /\ alarms' = IF Poisoned("alarms") THEN alarms
                 ELSE ClearPlantAlarmsLocked(alarms, p)
    /\ ops' = ops + 1
    /\ UNCHANGED << plant_data, prev_freq, events, offline_mode, next_alarm_id,
                    next_event_id, today, pc, loc, ticks, net_requests, op, obs,
                    pre, mb, inputs, lk >>

\* ---------------------------------------------------------------- readers
\* A set_data call of plant p is between its first lock and its return.
InSetData(p) == pc[p] \in {"alarms", "event", "write_back"}

\* GET /api/plants/{p}/power (or any other reader): get_data(p).
GetData(p) ==
    /\ obs' = [plant |-> p, rec |-> get_data(plant_data, p),
               mid |-> InSetData(p), tick |-> ticks[p]]
    /\ UNCHANGED << plant_data, prev_freq, alarms, events, offline_mode,
                    next_alarm_id, next_event_id, today, pc, loc, ticks,
                    net_requests, op, ops, pre, mb, inputs, lk >>

\* Faulty variant of the request match: a write is acknowledged.
MbCall_AcceptsWrites(req) ==
    /\ mb.pc = "idle"
    /\ mb' = [ pc |-> IF req[1] \in ReadFunctions /\ req[3] > 0 THEN "resolve"
                      ELSE "done",
               fn |-> req[1], addr |-> req[2], cnt |-> req[3],
               regs |-> <<>>, seen |-> <<>>,
               result |-> IF req[1] \in ReadFunctions /\ req[3] > 0 THEN "-"
                          ELSE "Ok" ]
    /\ UNCHANGED << plant_data, prev_freq, alarms, events, offline_mode,
                    next_alarm_id, next_event_id, today, pc, loc, ticks,
                    net_requests, op, ops, obs, pre, inputs, lk >>

\* MbService::call is entered with a request: the two read functions go
\* through the registers (none for a count of 0), any other request is
\* answered with Err(ExceptionCode::IllegalFunction).
MbCall(req) ==
    /\ mb.pc = "idle"
    /\ mb' = [ pc |-> IF req[1] \in ReadFunctions /\ req[3] > 0 THEN "resolve"
                      ELSE "done",
               fn |-> req[1], addr |-> req[2], cnt |-> req[3],
               regs |-> <<>>, seen |-> <<>>,
               result |-> IF req[1] \notin ReadFunctions THEN "IllegalFunction"
                          ELSE IF req[3] = 0 THEN "Ok" ELSE "-" ]
    /\ UNCHANGED << plant_data, prev_freq, alarms, events, offline_mode,
                    next_alarm_id, next_event_id, today, pc, loc, ticks,
                    net_requests, op, ops, obs, pre, inputs, lk >>

\* resolve(reg_addr) once get_data has answered with data: 0 for an address
\* outside the map and for a plant without a record.
RegisterWord(reg_addr, data) ==
    IF reg_addr \notin DOMAIN register_map \/ data = NoData THEN 0
    ELSE ResolveWord(register_map[reg_addr][2], register_map[reg_addr][3], data)

\* (0..cnt).map(|i| resolve(addr + i)): one resolve, with its own get_data.
\* seen records what that get_data returned.  addr + i is a u16 sum: past
\* 65535 it panics in a build with overflow checks and wraps in one without.
MbResolve ==
    /\ mb.pc = "resolve"
    /\ LET sum == mb.addr + Len(mb.regs)
           reg_addr == sum % 65536
           data == IF reg_addr \in DOMAIN register_map
                   THEN get_data(plant_data, register_map[reg_addr][1])
                   ELSE NoData
           regs == Append(mb.regs, RegisterWord(reg_addr, data))
       IN IF sum > 65535 /\ inputs.overflow_checks
          THEN mb' = [mb EXCEPT !.pc = "done", !.result = "panic"]
          ELSE mb' = [mb EXCEPT !.regs = regs, !.seen = Append(@, data),
                                !.pc = IF Len(regs) = mb.cnt THEN "done"
                                       ELSE "resolve",
                                !.result = IF Len(regs) = mb.cnt THEN "Ok"
                                           ELSE "-"]
    /\ UNCHANGED << plant_data, prev_freq, alarms, events, offline_mode,
                    next_alarm_id, next_event_id, today, pc, loc, ticks,
                    net_requests, op, ops, obs, pre, inputs, lk >>

\* The response (or the exception) has been sent, or the connection's task
\* has ended with the panic.
MbDone ==
    /\ mb.pc = "done"
    /\ mb' = IdleMb
    /\ UNCHANGED << plant_data, prev_freq, alarms, events, offline_mode,
                    next_alarm_id, next_event_id, today, pc, loc, ticks,
                    net_requests, op, ops, obs, pre, inputs, lk >>

\* ----------------------------------------------- steps of the lock view
\* The state the data actions work on.
dataVars ==
    << plant_data, prev_freq, alarms, events, offline_mode, next_alarm_id,
       next_event_id, today, pc, loc, ticks, net_requests, op, ops, obs, pre,
       mb, inputs >>

\* A process that is in no operation calls one.
LockCall(proc, operation) ==
    /\ lk[proc].todo = << >>
    /\ lk' = [lk EXCEPT ![proc].todo = operation]
    /\ UNCHANGED dataVars

\* lock.read() / lock.write() returns the guard (the process waits until
\* the lock is free).
LockAcquire(proc) ==
    /\ lk[proc].todo # << >>
    /\ LET e == Head(lk[proc].todo)
       IN /\ e.ev = "acq"
          /\ Free(e.lock, e.mode)
          /\ lk' = [lk EXCEPT ![proc].todo = Tail(@),
                              ![proc].holds = @ \cup { << e.lock, e.mode >> }]
    /\ UNCHANGED dataVars

\* A guard goes out of scope or is dropped.
LockRelease(proc) ==
    /\ lk[proc].todo # << >>
    /\ LET e == Head(lk[proc].todo)
       IN /\ e.ev = "rel"
          /\ lk' = [lk EXCEPT ![proc].todo = Tail(@),
                              ![proc].holds = { h \in @ : h[1] # e.lock }]
    /\ UNCHANGED dataVars

\* A branch is decided: its part runs or is skipped.
LockBranch(proc) ==
    /\ lk[proc].todo # << >>
    /\ LET e == Head(lk[proc].todo)
       IN /\ e.ev = "branch"
          /\ \E taken \in BOOLEAN :
                lk' = [lk EXCEPT ![proc].todo = IF taken THEN e.sub \o Tail(@)
                                               ELSE Tail(@)]
    /\ UNCHANGED dataVars

\* ---------------------------------------------------------- specification
\* One complete set_data call (both critical sections) by day on a quiet
\* grid, applied to the stored record rec.
DayTick(rec, has_prev) ==
    LET r == SetDataLocked(rec, has_prev, F_NOM + FOffset(QuietHash),
                           nominal_power_kw(1), DayEstimate, QuietHash, 1)
        logic == AlarmLogic(AlarmBlocks(r.snap), Len(AlarmBlocks(r.snap)))
    IN WriteBackLocked(r.data, logic.fault_code, logic.new_flags,
                       nominal_power_kw(1))

\* The record after k more such ticks.  (rec = rec has the record of one
\* tick evaluated before the next tick is applied to it.)
RECURSIVE WarmFrom(_, _, _)
WarmFrom(rec, k, has_prev) ==
    IF k = 0 THEN rec
    ELSE IF rec = rec THEN WarmFrom(DayTick(rec, has_prev), k - 1, TRUE)
    ELSE rec

\* The record of a plant after n ticks by day on a quiet grid, starting
\* with the entry's creation.
WarmRecord(n) == WarmFrom(DefaultPlantData, n, FALSE)

\* The program after every plant's task has run n such ticks (n = 0: just
\* started).  ticks and net_requests count from this state on.
StartedWarm(n) ==
    /\ plant_data = IF n = 0 THEN << >> ELSE [p \in Plants |-> WarmRecord(n)]
    /\ prev_freq = IF n = 0 THEN << >>
                   ELSE [p \in Plants |-> F_NOM + FOffset(QuietHash)]
    /\ alarms = << >>
    /\ events = << >>
    /\ next_alarm_id = 1
    /\ next_event_id = 1
    /\ today = 1
    /\ pc = [p \in Plants |-> IF n = 0 THEN "idle" ELSE "sleep"]
    /\ loc = [p \in Plants |-> BlankLoc]
    /\ ticks = [p \in Plants |-> 0]
    /\ net_requests = [p \in Plants |-> 0]
    /\ op = [pc |-> "idle", value |-> FALSE]
    /\ ops = 0
    /\ obs = NoObs
    /\ pre = [p \in Plants |-> NoData]
    /\ mb = IdleMb
    /\ lk = NoLocks

Next ==
    \/ \E p \in Plants : TickBegin(p)
    \/ \E p \in Plants : FetchOk(p)
    \/ \E p \in Plants : FetchFail(p)
    \/ \E p \in Plants : SetDataDerive(p)
    \/ \E p \in Plants : AlarmCall(p)
    \/ \E p \in Plants : AlarmEvent(p)
    \/ \E p \in Plants : WriteBack(p)
    \/ Midnight
    \/ \E value \in BOOLEAN : SetOfflineStore(value)
    \/ SetOfflineEvent
    \/ \E p \in Plants : ClearPlantAlarms(p)
    \/ \E p \in Plants : GetData(p)
    \/ \E req \in inputs.requests : MbCall(req)
    \/ MbResolve
    \/ MbDone

Spec == Init /\ [][Next]_vars

\* The lock view alone: every interleaving of the lock events of ticks,
\* reads, acknowledgements and mode changes.
InitLocks ==
    /\ Started
    /\ offline_mode = TRUE
    /\ inputs = AllInputs

NextLocks ==
    \/ \E proc \in Procs : \E operation \in Operations(proc) :
          LockCall(proc, operation)
    \/ \E proc \in Procs : LockAcquire(proc)
    \/ \E proc \in Procs : LockRelease(proc)
    \/ \E proc \in Procs : LockBranch(proc)

SpecLocks == InitLocks /\ [][NextLocks]_vars

\* ------------------------------------------------- restricted compositions
\* The same actions, composed for one concern at a time.
\* One iteration of plant p's update loop in offline mode.
TickStep(p) ==
    \/ TickBegin(p)
    \/ SetDataDerive(p)
    \/ AlarmCall(p)
    \/ AlarmEvent(p)
    \/ WriteBack(p)

\* Offline plants on a grid with swells and sags, and an operator who
\* acknowledges alarms.
InitAlarms ==
    /\ Started
    /\ offline_mode = TRUE
    /\ inputs = [ estimates |-> {DayEstimate}, weather |-> {},
                  hashes |-> HashValues, requests |-> {},
                  overflow_checks |-> FALSE, poisoned |-> {} ]

NextAlarms ==
    \/ \E p \in Plants : TickStep(p)
    \/ \E p \in Plants : ClearPlantAlarms(p)

SpecAlarms == InitAlarms /\ [][NextAlarms]_vars

\* Offline plants on a grid with swells, and an operator who acknowledges
\* alarms and posts the offline mode again.
InitEvents ==
    /\ Started
    /\ offline_mode = TRUE
    /\ inputs = [ estimates |-> {DayEstimate}, weather |-> {},
                  hashes |-> {QuietHash, SwellHash}, requests |-> {},
                  overflow_checks |-> FALSE, poisoned |-> {} ]

NextEvents ==
    \/ \E p \in Plants : TickStep(p)
    \/ \E p \in Plants : ClearPlantAlarms(p)
    \/ SetOfflineStore(TRUE)
    \/ SetOfflineEvent

SpecEvents == InitEvents /\ [][NextEvents]_vars

\* The task of plant 1 with an HTTP reader and a Modbus client.
InitReaders ==
    /\ Started
    /\ offline_mode = TRUE
    /\ inputs = [ estimates |-> OfflineEstimates, weather |-> {},
                  hashes |-> HashValues, requests |-> MbRequests,
                  overflow_checks |-> FALSE, poisoned |-> {} ]

NextReaders ==
    \/ TickStep(1)
    \/ GetData(1)
    \/ \E req \in inputs.requests : MbCall(req)
    \/ MbResolve
    \/ MbDone

SpecReaders == InitReaders /\ [][NextReaders]_vars

\* Offline plants by day and by night, across midnight.
InitEnergy ==
    /\ Started
    /\ offline_mode = TRUE
    /\ inputs = [ estimates |-> OfflineEstimates, weather |-> {},
                  hashes |-> {QuietHash, SagHash}, requests |-> {},
                  overflow_checks |-> FALSE, poisoned |-> {} ]

NextEnergy ==
    \/ \E p \in Plants : TickStep(p)
    \/ Midnight

SpecEnergy == InitEnergy /\ [][NextEnergy]_vars

\* Plants in either mode on a grid with swells, and an operator who switches the
\* mode.
InitMode ==
    /\ Started
    /\ inputs = [ estimates |-> {DayEstimate}, weather |-> WeatherResponses,
                  hashes |-> {SwellHash}, requests |-> {},
                  overflow_checks |-> FALSE, poisoned |-> {} ]

NextMode ==
    \/ \E p \in Plants : TickStep(p)
    \/ \E p \in Plants : FetchOk(p)
    \/ \E p \in Plants : FetchFail(p)
    \/ \E value \in BOOLEAN : SetOfflineStore(value)
    \/ SetOfflineEvent

SpecMode == InitMode /\ [][NextMode]_vars

\* The task of plant 1 (plant 2 has not produced a record yet) and a Modbus
\* client, in a build with or without overflow checks.
InitModbus ==
    /\ Started
    /\ offline_mode = TRUE
    /\ \E oc \in BOOLEAN :
          inputs = [ estimates |-> {DayEstimate}, weather |-> {},
                     hashes |-> {QuietHash, DriftHash, SwellHash},
                     requests |-> ModbusRequests, overflow_checks |-> oc,
                     poisoned |-> {} ]

NextModbus ==
    \/ TickStep(1)
    \/ \E req \in inputs.requests : MbCall(req)
    \/ MbResolve
    \/ MbDone

SpecModbus == InitModbus /\ [][NextModbus]_vars

\* Online plants on a quiet grid, freshly started or after WarmTicks ticks
\* of daylight, with weather that may be cold and bright and a fallback
\* that may be day, dusk or night.
InitPower ==
    /\ \E n \in {0, WarmTicks} : StartedWarm(n)
    /\ offline_mode = FALSE
    /\ inputs = [ estimates |-> {NightEstimate, DuskEstimate, DayEstimate},
                  weather |-> {ColdBrightResponse},
                  hashes |-> {QuietHash}, requests |-> {},
                  overflow_checks |-> FALSE, poisoned |-> {} ]

NextPower ==
    \/ \E p \in Plants : TickBegin(p)
    \/ \E p \in Plants : FetchOk(p)
    \/ \E p \in Plants : FetchFail(p)
    \/ \E p \in Plants : SetDataDerive(p)
    \/ \E p \in Plants : WriteBack(p)

SpecPower == InitPower /\ [][NextPower]_vars

\* Offline plants on a grid whose swells may come with an over-frequency,
\* and an operator who acknowledges alarms.
InitHistory ==
    /\ Started
    /\ offline_mode = TRUE
    /\ inputs = [ estimates |-> {DayEstimate}, weather |-> {},
                  hashes |-> {SwellHash, SwellOverFreqHash}, requests |-> {},
                  overflow_checks |-> FALSE, poisoned |-> {} ]

NextHistory ==
    \/ \E p \in Plants : TickStep(p)
    \/ \E p \in Plants : ClearPlantAlarms(p)

SpecHistory == InitHistory /\ [][NextHistory]_vars

\* Offline plants whose estimates the estimator computes, on a quiet grid.
InitEstimate ==
    /\ Started
    /\ offline_mode = TRUE
    /\ inputs = [ estimates |-> { get_offline_data(i, nominal_power_kw(1)) :
                                    i \in SkyInputs },
                  weather |-> {}, hashes |-> {QuietHash}, requests |-> {},
                  overflow_checks |-> FALSE, poisoned |-> {} ]

NextEstimate ==
    \/ \E p \in Plants : TickBegin(p)
    \/ \E p \in Plants : SetDataDerive(p)
    \/ \E p \in Plants : WriteBack(p)

SpecEstimate == InitEstimate /\ [][NextEstimate]_vars

\* One tick of a plant of the given nominal power: both critical sections
\* of set_data, on a grid whose frequency was quiet in the tick before.
TickOf(rec, nominal, est, h) ==
    LET r == SetDataLocked(rec, TRUE, F_NOM + FOffset(QuietHash), nominal,
                           est, h, 1)
        logic == AlarmLogic(AlarmBlocks(r.snap), Len(AlarmBlocks(r.snap)))
    IN WriteBackLocked(r.data, logic.fault_code, logic.new_flags, nominal)

\* The record after k more such ticks.
RECURSIVE TicksFrom(_, _, _, _, _)
TicksFrom(rec, k, nominal, est, h) ==
    IF k = 0 THEN rec
    ELSE IF rec = rec
    THEN TicksFrom(TickOf(rec, nominal, est, h), k - 1, nominal, est, h)
    ELSE rec

\* The record of a plant that has ramped up completely: WarmTicks more
\* ticks by day on a quiet grid.
FullRecord ==
    TicksFrom(WarmRecord(WarmTicks), WarmTicks, nominal_power_kw(1),
              DayEstimate, QuietHash)

\* The record of such a plant after an overtemperature event of HotTicks
\* ticks.
HotRecord ==
    TicksFrom(FullRecord, HotTicks, nominal_power_kw(1), DayEstimate, HotHash)

\* The program with plant 1's record being rec after its last tick, and
\* plant 2 not started.
StartedFrom(rec) ==
    /\ plant_data = (1 :> rec)
    /\ prev_freq = (1 :> rec.frequency_hz)
    /\ alarms = << >>
    /\ events = << >>
    /\ next_alarm_id = 1
    /\ next_event_id = 1
    /\ today = 1
    /\ pc = [p \in Plants |-> IF p = 1 THEN "sleep" ELSE "idle"]
    /\ loc = [p \in Plants |-> BlankLoc]
    /\ ticks = [p \in Plants |-> 0]
    /\ net_requests = [p \in Plants |-> 0]
    /\ op = [pc |-> "idle", value |-> FALSE]
    /\ ops = 0
    /\ obs = NoObs
    /\ pre = [p \in Plants |-> NoData]
    /\ mb = IdleMb
    /\ lk = NoLocks

\* Plant 1, offline, freshly started, ramping up, ramped up or hot, under
\* every kind of injected fault, by day, by night and in a cold night.
InitFaults ==
    /\ \/ Started
       \/ StartedFrom(WarmRecord(WarmTicks))
       \/ StartedFrom(FullRecord)
       \/ StartedFrom(HotRecord)
    /\ offline_mode = TRUE
    /\ inputs = [ estimates |-> { DayEstimate, NightEstimate, ColdNightEstimate,
                                  HumidDawnEstimate, BrightColdEstimate },
                  weather |-> {}, hashes |-> FaultHashes, requests |-> {},
                  overflow_checks |-> FALSE, poisoned |-> {} ]

NextFaults == TickStep(1)

SpecFaults == InitFaults /\ [][NextFaults]_vars

\* Plant 1 offline, by day, with and without a swell, after a writer of one
\* of the locks has crashed (or of none); a reader and an operator who
\* acknowledges plant 1's alarms.
InitPoison ==
    /\ \/ Started
       \/ StartedFrom(FullRecord)
    /\ offline_mode = TRUE
    /\ \E l \in SUBSET Locks :
          /\ Cardinality(l) <= 1
          /\ inputs = [ estimates |-> {DayEstimate}, weather |-> {},
                        hashes |-> {QuietHash, SwellHash}, requests |-> {},
                        overflow_checks |-> FALSE, poisoned |-> l ]

NextPoison ==
    \/ TickStep(1)
    \/ ClearPlantAlarms(1)
    \/ GetData(1)

SpecPoison == InitPoison /\ [][NextPoison]_vars

\* The update tasks alone, offline or online, with the scheduling of the
\* runtime: a task that can take a step of its own (the sleep is over, a
\* lock is free) takes it.  Nothing makes the weather endpoint answer:
\* reqwest::get is awaited without a timeout, so FetchOk and FetchFail are
\* steps of the environment and carry no fairness.
InitLive ==
    /\ Started
    /\ inputs = [ estimates |-> {DayEstimate}, weather |-> WeatherResponses,
                  hashes |-> {QuietHash, SwellHash}, requests |-> {},
                  overflow_checks |-> FALSE, poisoned |-> {} ]

NextLive ==
    \/ \E p \in Plants : TickStep(p)
    \/ \E p \in Plants : FetchOk(p)
    \/ \E p \in Plants : FetchFail(p)

\* Weak fairness of every step of a task.  SetDataDerive(p) and
\* WriteBack(p) are enabled exactly at their pc and leave it, so their weak
\* fairness is stated as "the task is not at that pc for ever".
SpecLive ==
    /\ InitLive
    /\ [][NextLive]_vars
    /\ \A p \in Plants : /\ WF_vars(TickBegin(p))
                          /\ WF_vars(AlarmCall(p))
                          /\ WF_vars(AlarmEvent(p))
                          /\ []<>(pc[p] # "set_data")
                          /\ []<>(pc[p] # "write_back")

\* ================================================================ claims
\* Alarms of (plant_id, code) in the registry that are active.
ActiveOf(plant_id, code) ==
    { i \in 1..Len(alarms) : /\ alarms[i].plant_id = plant_id
                             /\ alarms[i].code = code
                             /\ alarms[i].active }

AlarmCodes ==
    { AC_OVERVOLTAGE, AC_UNDERVOLTAGE, AC_OVERFREQUENCY, AC_UNDERFREQUENCY,
      ROCOF_TRIP, DC_OVERVOLTAGE, ISOLATION_FAULT, GROUND_FAULT,
      OVERTEMPERATURE, FAN_FAULT }

\* C1: for every plant and every alarm code the registry never holds more
\* than one active alarm of that (plant_id, code), however the ticks of the
\* plants and the operator's clear_plant_alarms interleave.
C1_OneActivePerCode ==
    \A p \in Plants : \A code \in AlarmCodes :
        Cardinality(ActiveOf(p, code)) <= 1

\* A second tick in a row sees the overvoltage while the alarm of the first
\* tick is still active: raise_alarm has met its own alarm.
C1_Witness ==
    \E p \in Plants :
        /\ ticks[p] = 1
        /\ pc[p] = "write_back"
        /\ loc[p].snap.v_avg > V_OV_LIMIT
        /\ BIT_AC_OVERVOLTAGE \in pre[p].alarm_flags
        /\ ops = 0
        /\ Cardinality(ActiveOf(p, AC_OVERVOLTAGE)) = 1

\* C2: a get_data(p) answered while a set_data call of plant p is in
\* progress returns either the complete record as it was before that call
\* or the complete record as it is when the call has returned, never a mix
\* of the two.  (Stated when the call has returned, for the last read.)
C2_NoTornRead ==
    \A p \in Plants :
        ( /\ pc[p] = "sleep"
          /\ obs.plant = p
          /\ obs.mid
          /\ obs.tick = ticks[p] - 1 )
        => obs.rec \in { pre[p], plant_data[p] }

\* C3: when a set_data call has returned, the plant's record has status 2
\* (Fault) if and only if alarm_flags is not 0 or fault_code is not 0.
C3_StatusIffFlags ==
    \A p \in Plants :
        pc[p] = "sleep" =>
            ( plant_data[p].status = STATUS_FAULT
              <=> ( plant_data[p].alarm_flags # {}
                    \/ plant_data[p].fault_code # NONE ) )

\* The float fields whose two registers a request may cover.
FloatAddrs ==
    { a \in DOMAIN register_map :
        /\ register_map[a][3] = 0
        /\ a + 1 \in DOMAIN register_map
        /\ register_map[a + 1][2] = register_map[a][2]
        /\ register_map[a + 1][3] = 1 }

\* C4: the two words a read request returns for a float field are the high
\* and the low word of one PlantData snapshot (one of the values get_data
\* had while the request was served).
C4_WordsOfOneSnapshot ==
    ( /\ mb.pc = "done"
      /\ mb.cnt = 2
      /\ mb.addr \in FloatAddrs )
    => \E i \in 1..Len(mb.seen) :
          mb.regs = << RegisterWord(mb.addr, mb.seen[i]),
                       RegisterWord(mb.addr + 1, mb.seen[i]) >>

\* AlarmRaised events of (plant_id, code) in the event log.
RaisedEventsOf(plant_id, code) ==
    { j \in 1..Len(events) : /\ events[j].kind = "AlarmRaised"
                             /\ events[j].plant_id = plant_id
                             /\ events[j].code = code }

\* Alarms of (plant_id, code) in the registry.
AlarmsOf(plant_id, code) ==
    { i \in 1..Len(alarms) : /\ alarms[i].plant_id = plant_id
                             /\ alarms[i].code = code }

\* C5: an alarm and its AlarmRaised event are visible together: as long as
\* neither the registry nor the log has dropped an entry, a reader of
\* get_alarms and get_events finds as many alarms of a (plant_id, code) as
\* AlarmRaised events of it.
C5_AlarmAndEventTogether ==
    ( /\ next_alarm_id - 1 <= MAX_ALARM_HISTORY
      /\ Len(events) < MAX_EVENT_LOG )
    => \A p \in Plants : \A code \in AlarmCodes :
          Cardinality(AlarmsOf(p, code)) = Cardinality(RaisedEventsOf(p, code))

\* The tick plant p is in, or has just ended, saw an average voltage above
\* V_OV_LIMIT.
OvTick(p) ==
    /\ loc[p].snap # NoSnap
    /\ loc[p].snap.v_avg > V_OV_LIMIT

RaiseOv == Raise(AC_OVERVOLTAGE, "Warning")

\* The raise_alarm(p, 101) call of such a tick has passed its critical section.
RaiseOvDone(p) ==
    /\ pc[p] \in {"alarms", "event", "write_back", "sleep"}
    /\ OvTick(p)
    /\ ~(pc[p] = "alarms" /\ Head(loc[p].calls) = RaiseOv)

\* A step of plant p's task.
TaskStep(p) == loc'[p] # loc[p] \/ pc'[p] # pc[p]

\* The record after an overvoltage tick.
C6_Record(d) ==
    /\ BIT_AC_OVERVOLTAGE \in d.alarm_flags
    /\ d.status = STATUS_FAULT
    /\ d.fault_code = AC_OVERVOLTAGE

\* What the steps of a tick do about alarm 101 of plant p.
C6_Steps(p) ==
    \* the first critical section decides on the call: raise above the
    \* limit, clear of an active alarm otherwise
    /\ (pc[p] = "set_data" /\ TaskStep(p)) =>
          IF loc'[p].snap.v_avg > V_OV_LIMIT
          THEN pc'[p] = "alarms" /\ Head(loc'[p].calls) = RaiseOv
          ELSE HasActive(alarms, p, AC_OVERVOLTAGE) =>
                 (pc'[p] = "alarms" /\ Head(loc'[p].calls) = Clear(AC_OVERVOLTAGE))
    \* raise_alarm: an active alarm afterwards; a new one, with its event
    \* pending, if none was active
    /\ (pc[p] = "alarms" /\ Head(loc[p].calls) = RaiseOv /\ TaskStep(p)) =>
          /\ HasActive(alarms', p, AC_OVERVOLTAGE)
          /\ ~HasActive(alarms, p, AC_OVERVOLTAGE) =>
                /\ alarms'[Len(alarms')] =
                      [ id |-> next_alarm_id, plant_id |-> p,
                        code |-> AC_OVERVOLTAGE, severity |-> "Warning",
                        active |-> TRUE, cleared_at |-> "None" ]
                /\ pc'[p] = "event"
                /\ loc'[p].pending = [kind |-> "AlarmRaised", code |-> AC_OVERVOLTAGE]
    \* clear_alarm: the active alarm becomes inactive with cleared_at set,
    \* and its event is pending
    /\ (pc[p] = "alarms" /\ Head(loc[p].calls) = Clear(AC_OVERVOLTAGE)
            /\ TaskStep(p)) =>
          /\ ~HasActive(alarms', p, AC_OVERVOLTAGE)
          /\ Len(alarms') = Len(alarms)
          /\ \A i \in ActiveOf(p, AC_OVERVOLTAGE) :
                alarms'[i] = [alarms[i] EXCEPT !.active = FALSE,
                                               !.cleared_at = "Some"]
          /\ HasActive(alarms, p, AC_OVERVOLTAGE) =>
                /\ pc'[p] = "event"
                /\ loc'[p].pending = [kind |-> "AlarmCleared", code |-> AC_OVERVOLTAGE]
    \* push_event: the pending event becomes the newest of the log
    /\ (pc[p] = "event" /\ loc[p].pending.code = AC_OVERVOLTAGE /\ TaskStep(p)) =>
          Head(events') = NewEvent(next_event_id, p, loc[p].pending.kind,
                                   AC_OVERVOLTAGE, "-")
    \* only p's own raise_alarm makes an alarm 101 of p active
    /\ (HasActive(alarms', p, AC_OVERVOLTAGE)
            /\ ~HasActive(alarms, p, AC_OVERVOLTAGE)) =>
          (pc[p] = "alarms" /\ Head(loc[p].calls) = RaiseOv /\ TaskStep(p))

C7_EventLog ==
    /\ [](/\ Len(events) <= MAX_EVENT_LOG
          /\ \A i \in 1..Len(events) : events[i].id = next_event_id - i
          /\ \A n \in 0..(MAX_EVENT_LOG + 1) :
                get_events(events, n) = SubSeq(events, 1, Min(n, Len(events))))
    /\ [][events' # events =>
            /\ Head(events').id = next_event_id
            /\ next_event_id' = next_event_id + 1
            /\ Tail(events') = IF Len(events) = MAX_EVENT_LOG
                               THEN SubSeq(events, 1, MAX_EVENT_LOG - 1)
                               ELSE events]_vars

\* The log is full, its oldest event has been dropped, and it holds events
\* of both plant tasks and of the operator.
C7_Witness ==
    /\ Len(events) = MAX_EVENT_LOG
    /\ events[Len(events)].id > 1
    /\ \E i \in 1..Len(events) : events[i].kind = "ModeChange"
    /\ \A p \in Plants : \E i \in 1..Len(events) : events[i].plant_id = p

\* C8: the registry never holds more than MAX_ALARM_HISTORY alarms, oldest
\* first; a raise that finds it full removes exactly the oldest alarm and
\* keeps the new one, any other raise only appends.
C8_AlarmHistory ==
    /\ [](/\ Len(alarms) <= MAX_ALARM_HISTORY
          /\ \A i \in 1..Len(alarms) : \A j \in 1..Len(alarms) :
                i < j => alarms[i].id < alarms[j].id)
    /\ [][next_alarm_id' # next_alarm_id =>
            /\ alarms'[Len(alarms')].id = next_alarm_id
            /\ alarms'[Len(alarms')].active
            /\ SubSeq(alarms', 1, Len(alarms') - 1) =
                  IF Len(alarms) = MAX_ALARM_HISTORY THEN Tail(alarms)
                  ELSE alarms]_vars

\* The registry is full and its oldest alarm has been removed.
C8_Witness ==
    /\ Len(alarms) = MAX_ALARM_HISTORY
    /\ alarms[1].id > 1
    /\ alarms[Len(alarms)].id = next_alarm_id - 1

\* What a step does to the energy counters of a record: before is the stored
\* record (the default when the entry is created), after the stored one.
C9_Counters(before, after, p) ==
    /\ after.total_energy_kwh >= before.total_energy_kwh
    /\ after.monthly_energy_kwh >= before.monthly_energy_kwh
    /\ after.co2_avoided_kg >= before.co2_avoided_kg
    /\ IF pc[p] = "set_data"
       THEN \* first critical section: the day-of-year test
            /\ after.last_day_reset = today
            /\ after.total_energy_kwh = before.total_energy_kwh
            /\ IF before.last_day_reset \in {0, today}
               THEN /\ after.daily_energy_kwh = before.daily_energy_kwh
                    /\ after.daily_peak_power_kw = before.daily_peak_power_kw
               ELSE /\ after.daily_energy_kwh = 0
                    /\ after.daily_peak_power_kw = 0
       ELSE \* write-back: this tick's contribution
            /\ after.last_day_reset = before.last_day_reset
            /\ after.daily_energy_kwh =
                  before.daily_energy_kwh + after.power_kw * UPDATE_INTERVAL_S
            /\ after.total_energy_kwh =
                  before.total_energy_kwh + after.power_kw * UPDATE_INTERVAL_S
            /\ after.daily_peak_power_kw =
                  Max(before.daily_peak_power_kw, after.power_kw)
            /\ after.daily_peak_power_kw >= before.daily_peak_power_kw

\* C9: no step of a tick lowers total_energy_kwh, monthly_energy_kwh or
\* co2_avoided_kg; daily_energy_kwh and daily_peak_power_kw go down only
\* in the first critical section of a tick whose day-of-year differs from
\* a non-zero last_day_reset, where both become 0 and last_day_reset
\* becomes the new ordinal, and the write-back then adds this tick's
\* contribution; the first tick of a plant only records the ordinal.
C9_EnergyCounters ==
    [][\A p \in Plants :
         (p \in DOMAIN plant_data' /\ get_data(plant_data', p) # get_data(plant_data, p))
         => C9_Counters(IF p \in DOMAIN plant_data THEN plant_data[p]
                        ELSE DefaultPlantData,
                        plant_data'[p], p)]_vars

\* A plant produced energy on day 1 and ticked again after midnight: the
\* daily counter restarted at this tick's contribution, the total kept the
\* energy of both days.
C9_Witness ==
    \E p \in Plants :
        /\ ticks[p] = 2
        /\ pc[p] = "sleep"
        /\ plant_data[p].last_day_reset = 2
        /\ pre[p].last_day_reset = 1
        /\ pre[p].daily_energy_kwh > 0
        /\ plant_data[p].power_kw > 0
        /\ plant_data[p].daily_energy_kwh = plant_data[p].power_kw * UPDATE_INTERVAL_S
        /\ plant_data[p].total_energy_kwh =
              pre[p].total_energy_kwh + plant_data[p].daily_energy_kwh

\* What the steps of the tasks and of set_offline do about the mode.
C10_Steps ==
    /\ \A p \in Plants :
          /\ (offline_mode /\ pc[p] \in {"idle", "sleep"} /\ TaskStep(p)) =>
                /\ pc'[p] = "set_data"
                /\ loc'[p].offline
                /\ loc'[p].est \in OfflineEstimates
                /\ net_requests'[p] = net_requests[p]
          /\ (net_requests'[p] # net_requests[p]) =>
                (~offline_mode /\ pc[p] \in {"idle", "sleep"})
    /\ (ops' # ops) =>
          /\ pc' = pc
          /\ loc' = loc
          /\ net_requests' = net_requests
          /\ op'.pc = "event"
          /\ offline_mode' = op'.value
    /\ (offline_mode' # offline_mode) => (ops' # ops)
    /\ (op.pc = "event" /\ op'.pc = "idle") =>
          Head(events') = NewEvent(next_event_id, 0, "ModeChange", NONE,
                                   IF op.value THEN "OFFLINE" ELSE "ONLINE")

\* C10: a tick that starts while offline_mode is true takes its estimate
\* from the offline estimator and issues no request (requests are issued
\* only by ticks that start in online mode); set_offline changes nothing
\* of a task, so a request in flight still completes; and the call appends
\* a ModeChange event naming the mode before it returns.
C10_OfflineMode ==
    /\ [](\A p \in Plants : pc[p] = "fetching" => ENABLED FetchOk(p))
    /\ [][C10_Steps]_vars

\* set_offline(true) has returned with its event logged while one plant's
\* request is still in flight, and another plant has since started a tick
\* without ever issuing a request.
C10_Witness ==
    \E p \in Plants : \E q \in Plants :
        /\ offline_mode
        /\ op.pc = "idle"
        /\ events # <<>>
        /\ Head(events).kind = "ModeChange"
        /\ Head(events).mode = "OFFLINE"
        /\ pc[p] = "fetching"
        /\ pc[q] = "set_data"
        /\ loc[q].offline
        /\ net_requests[q] = 0

\* What the steps of plant p's task do around a weather request.
C11_Steps(p) ==
    \* the request ends, either way, with an estimate handed to set_data
    /\ (pc[p] = "fetching" /\ TaskStep(p)) =>
          /\ pc'[p] = "set_data"
          /\ loc'[p].est # NoEst
          /\ ~loc'[p].offline
          /\ ticks' = ticks
          /\ net_requests' = net_requests
          /\ plant_data' = plant_data
          \* a failure: the offline estimate, the flag and the log untouched
          /\ loc'[p].est.src = "offline" =>
                /\ loc'[p].est \in OfflineEstimates
                /\ offline_mode' = offline_mode
                /\ events' = events
                /\ next_event_id' = next_event_id
    \* set_data is entered once per tick, and a tick counts once
    /\ (pc'[p] = "set_data" /\ pc[p] # "set_data") =>
          pc[p] \in {"idle", "sleep", "fetching"}
    /\ (ticks'[p] # ticks[p]) =>
          (pc[p] = "write_back" /\ ticks'[p] = ticks[p] + 1)

\* C11: in online mode a weather request that fails (transport or parse)
\* still ends with an estimate, the one of the offline estimator, and the
\* tick goes on to its one set_data; the failure changes neither
\* offline_mode nor the event log.  Every request issued has its set_data
\* done or under way.
C11_FetchFailure ==
    /\ [](\A p \in Plants :
            /\ pc[p] = "fetching" => ENABLED FetchFail(p)
            /\ pc[p] = "set_data" => loc[p].est # NoEst
            /\ net_requests[p] <=
                  ticks[p] + (IF pc[p] \in {"idle", "sleep"} THEN 0 ELSE 1))
    /\ [][\A p \in Plants : C11_Steps(p)]_vars

\* An online tick whose request failed has completed its set_data with the
\* offline estimate; the mode is still online and no ModeChange was logged.
C11_Witness ==
    \E p \in Plants :
        /\ pc[p] = "sleep"
        /\ ticks[p] = 1
        /\ net_requests[p] = 1
        /\ ~loc[p].offline
        /\ loc[p].est.src = "offline"
        /\ p \in DOMAIN plant_data
        /\ plant_data[p].power_kw > 0
        /\ ~offline_mode
        /\ ops = 0
        /\ \A j \in 1..Len(events) : events[j].kind # "ModeChange"

\* C12: a read request is answered with Ok and one word per requested
\* register; the word is 0x0000 for a requested address outside the
\* register map and for a mapped register whose plant had no record, and
\* the register's value otherwise.  (The i-th requested address is
\* addr + i - 1.)
C12_ZeroForUnmapped ==
    ( mb.pc = "done" /\ mb.fn \in ReadFunctions ) =>
        /\ mb.result = "Ok"
        /\ Len(mb.regs) = mb.cnt
        /\ \A i \in 1..mb.cnt :
              LET a == mb.addr + i - 1
              IN IF a \notin DOMAIN register_map \/ mb.seen[i] = NoData
                 THEN mb.regs[i] = 0
                 ELSE mb.regs[i] = ResolveWord(register_map[a][2],
                                               register_map[a][3], mb.seen[i])

\* The shared state a Modbus request could touch.
SharedState ==
    << plant_data, prev_freq, alarms, events, offline_mode, next_alarm_id,
       next_event_id >>

\* C13: a request of any function other than the two reads is answered with
\* the exception IllegalFunction and no register, and no step of the Modbus
\* service changes the plant records, the alarms, the events or the flags.
C13_IllegalFunction ==
    /\ []( (mb.pc = "done" /\ mb.fn \notin ReadFunctions) =>
              (mb.result = "IllegalFunction" /\ mb.regs = <<>>) )
    /\ []( mb.result = "IllegalFunction" => mb.fn \notin ReadFunctions )
    /\ [][mb' # mb => UNCHANGED SharedState]_vars

\* A write to the status register of a plant with a record has been
\* refused, and the record still is what the tick left.
C13_Witness ==
    /\ mb.pc = "done"
    /\ mb.fn = "WriteSingleRegister"
    /\ mb.result = "IllegalFunction"
    /\ 1 \in DOMAIN plant_data
    /\ pc[1] = "sleep"
    /\ plant_data[1].status = STATUS_STARTING

\* Word values the split is tried on.
SampleWords == { 0, 1, 17143, 32768, 39846, 47940, 65535 }

\* C14: the two words returned for a float field, both read from the same
\* record, are the upper and the lower 16 bits of the bits of the field's
\* float32 value, high word first; float_to_words splits any 32 bits that
\* way; and 123.5 reads as 0x42F7, 0x0000.
C14_FloatWords ==
    /\ \A hi \in SampleWords : \A lo \in SampleWords :
          float_to_words(Bits(hi, 16) \o Bits(lo, 16)) = <<hi, lo>>
    /\ float_to_words(to_bits(123500, 1000)) = <<17143, 0>>
    /\ ( mb.pc = "done" /\ mb.result = "Ok" ) =>
          \A i \in 1..(mb.cnt - 1) :
              LET a == mb.addr + i - 1
              IN ( /\ a \in FloatAddrs
                   /\ mb.seen[i] # NoData
                   /\ mb.seen[i + 1] = mb.seen[i] ) =>
                     Bits(mb.regs[i], 16) \o Bits(mb.regs[i + 1], 16) =
                        as_f32(register_map[a][2], mb.seen[i])

\* The ROCOF of a plant whose frequency dropped, -0.003 Hz/s, has been read
\* from one record: 0xBB44, 0x9BA6.
C14_Witness ==
    /\ mb.pc = "done"
    /\ mb.result = "Ok"
    /\ mb.addr = base_address(1) + REG_ROCOF_HZ_S
    /\ mb.seen[1] # NoData
    /\ mb.seen[2] = mb.seen[1]
    /\ mb.seen[1].rocof_hz_s < 0
    /\ mb.regs = <<47940, 39846>>

\* What an acknowledgement of plant p's alarms does to the registry.
C15_Acknowledged(p) ==
    /\ Len(alarms') = Len(alarms)
    /\ \A i \in 1..Len(alarms) :
          IF alarms[i].plant_id = p /\ alarms[i].active
          THEN alarms'[i] = [alarms[i] EXCEPT !.active = FALSE,
                                              !.cleared_at = "Some"]
          ELSE alarms'[i] = alarms[i]
    /\ \A code \in AlarmCodes : ~HasActive(alarms', p, code)

\* C15: an operator's DELETE /api/plants/{p}/alarms leaves no alarm of p
\* active, stamps cleared_at on the alarms it deactivates and keeps every
\* other alarm, the length of the registry, every plant record, the event
\* log and the tasks as they were.
C15_ClearPlantAlarms ==
    [][ops' # ops =>
          /\ \E p \in Plants : C15_Acknowledged(p)
          /\ UNCHANGED << plant_data, prev_freq, events, offline_mode,
                          next_alarm_id, next_event_id, pc, loc, ticks >>]_vars

\* Plant p's overvoltage alarm has been acknowledged after its tick ended:
\* the alarm is inactive with cleared_at set, p's record still shows the
\* fault, no AlarmCleared event exists, and another plant's alarm is still
\* active.
C15_Witness ==
    \E p \in Plants : \E q \in Plants \ {p} :
        /\ ops = 1
        /\ pc[p] = "sleep"
        /\ OvTick(p)
        /\ ticks[p] = 1
        /\ \E i \in AlarmsOf(p, AC_OVERVOLTAGE) :
              ~alarms[i].active /\ alarms[i].cleared_at = "Some"
        /\ C6_Record(plant_data[p])
        /\ HasActive(alarms, q, AC_OVERVOLTAGE)
        /\ \A j \in 1..Len(events) : events[j].kind = "AlarmRaised"

\* C16: the power_kw of every plant record lies between 0 and 1.1 times the
\* plant's nominal power (all estimates have a DC power >= 0, the nominal
\* power is > 0).
C16_PowerBound ==
    \A p \in DOMAIN plant_data :
        /\ plant_data[p].power_kw >= 0
        /\ plant_data[p].power_kw * 10 <= 11 * nominal_power_kw(p)

\* Ramp factors and irradiances the ramp is tried on.
RampSamples == { 50 * k : k \in 0..20 } \cup { 1, 999 }
PoaSamples ==
    { 0, IRRAD_STOP_W_M2 - 1, IRRAD_STOP_W_M2, IRRAD_START_W_M2 - 1,
      IRRAD_START_W_M2, 1200000 }

\* The ramp_factor stored for plant p, 0.0 while it has no record.
StoredRamp(map, p) ==
    IF p \in DOMAIN map THEN map[p].ramp_factor
    ELSE DefaultPlantData.ramp_factor

\* C17: ramp_factor always lies in [0, 1] and no step changes it by more
\* than 0.08, whatever the irradiance and is_day are: in every state and
\* step of the tasks, and for the ramp computed from any sampled factor,
\* irradiance and is_day.
C17_Ramp ==
    /\ [](\A p \in Plants :
            StoredRamp(plant_data, p) >= 0 /\ StoredRamp(plant_data, p) <= 1000)
    /\ [](\A r \in RampSamples : \A poa \in PoaSamples : \A is_day \in BOOLEAN :
            /\ RampFactor(r, poa, is_day) >= 0
            /\ RampFactor(r, poa, is_day) <= 1000
            /\ Abs(RampFactor(r, poa, is_day) - r) <= RAMP_RATE)
    /\ [][\A p \in Plants :
            Abs(StoredRamp(plant_data', p) - StoredRamp(plant_data, p))
               <= RAMP_RATE]_vars

\* A plant that had ramped up went through a night tick: its factor came
\* down from above 0.9, by at most 0.08.
C17_Witness ==
    \E p \in Plants :
        /\ pc[p] = "sleep"
        /\ ticks[p] = 1
        /\ pre[p] # NoData
        /\ pre[p].ramp_factor > 900
        /\ ~plant_data[p].is_day
        /\ plant_data[p].ramp_factor < pre[p].ramp_factor
        /\ plant_data[p].ramp_factor >= pre[p].ramp_factor - RAMP_RATE

\* Nominal powers the estimator is tried on (1 W, 100 kW, 1 MW).
NominalSamples == { 1, 100000, 1000000 }

\* C18: whenever the computed solar elevation is <= 0, estimate returns a
\* power of 0 and is_day = false: for every sampled sky and nominal power,
\* and for every estimate a plant's task works with.
C18_NightIsDark ==
    /\ \A i \in SkyInputs : \A nominal \in NominalSamples :
          i.alpha_deg <= 0 =>
              /\ estimate(i, nominal).power_kw = 0
              /\ ~estimate(i, nominal).is_day
    /\ \A p \in Plants :
          ( loc[p].est # NoEst /\ loc[p].est.solar_elevation_deg <= 0 ) =>
              /\ loc[p].est.power_kw = 0
              /\ ~loc[p].est.is_day

\* One plant has ticked with the estimate of deep night (no power, not
\* day) while another works with the estimate of a high sun (power, day).
C18_Witness ==
    \E p \in Plants : \E q \in Plants :
        /\ pc[p] = "sleep"
        /\ loc[p].est.solar_elevation_deg < 0
        /\ plant_data[p].power_kw = 0
        /\ ~plant_data[p].is_day
        /\ pc[q] = "set_data"
        /\ loc[q].est.solar_elevation_deg > 0
        /\ loc[q].est.power_kw > 0
        /\ loc[q].est.is_day

\* The quantities step 11 of set_data tests, read back from the record the
\* call stored them in.
SnapOf(d) ==
    [ v_avg |-> Div(d.voltage_l1_v + d.voltage_l2_v + d.voltage_l3_v, 3),
      is_day |-> d.is_day, snap_freq |-> d.frequency_hz,
      snap_isol |-> d.isolation_resistance_mohm,
      snap_inv_temp |-> d.inverter_temp_c, snap_rocof |-> d.rocof_hz_s,
      snap_leak |-> d.leakage_current_ma,
      snap_fan_fail |-> d.fan_fault_active,
      snap_fan_rpm |-> d.inverter_fan_speed_rpm, ac_power |-> d.power_kw,
      dc_ov |-> DcOv(d.mppt_voltage_v) ]

\* The condition of an alarm code: step 11 calls raise_alarm with the code.
Condition(code, s) ==
    LET calls == AlarmLogic(AlarmBlocks(s), Len(AlarmBlocks(s))).calls
    IN \E i \in 1..Len(calls) : calls[i].op = "raise" /\ calls[i].code = code

\* The condition of the code held in the tick plant p is in (or has ended).
HoldsNow(p, code) == loc[p].snap # NoSnap /\ Condition(code, loc[p].snap)

\* The condition of the code held in the tick of plant p before that one.
HeldBefore(p, code) == ticks[p] > 0 /\ Condition(code, SnapOf(pre[p]))

\* C19: under any interleaving of ticks with acknowledgements and history
\* evictions, a new alarm of (p, code) and its AlarmRaised event are made
\* only in a tick where the code's condition holds and did not hold in p's
\* previous tick, and an AlarmCleared event only in a tick where the
\* condition does not hold and held in the previous tick.
C19_EdgeTriggered ==
    [][\A p \in Plants : \A code \in AlarmCodes :
         \* raise_alarm pushes a new alarm
         /\ ( /\ pc[p] = "alarms" /\ TaskStep(p)
              /\ Head(loc[p].calls).code = code
              /\ next_alarm_id' # next_alarm_id ) =>
                (HoldsNow(p, code) /\ ~HeldBefore(p, code))
         \* push_event of an AlarmRaised / AlarmCleared event
         /\ ( /\ pc[p] = "event" /\ TaskStep(p)
              /\ loc[p].pending.code = code ) =>
                IF loc[p].pending.kind = "AlarmRaised"
                THEN HoldsNow(p, code) /\ ~HeldBefore(p, code)
                ELSE ~HoldsNow(p, code) /\ HeldBefore(p, code)]_vars

\* The alarm_flags bit that step 11 of set_data sets together with the
\* raise_alarm of a code.
CodeBit(code) ==
    CASE code = AC_OVERVOLTAGE -> BIT_AC_OVERVOLTAGE
      [] code = AC_UNDERVOLTAGE -> BIT_AC_UNDERVOLTAGE
      [] code = AC_OVERFREQUENCY -> BIT_FREQUENCY_FAULT
      [] code = AC_UNDERFREQUENCY -> BIT_FREQUENCY_FAULT
      [] code = ISOLATION_FAULT -> BIT_ISOLATION_FAULT
      [] code = GROUND_FAULT -> BIT_LEAKAGE_CURRENT
      [] code = OVERTEMPERATURE -> BIT_OVERTEMPERATURE
      [] code = FAN_FAULT -> BIT_FAN_FAULT
      [] code = DC_OVERVOLTAGE -> BIT_DC_OVERVOLTAGE
      [] code = ROCOF_TRIP -> BIT_ROCOF_TRIP

FlagBits == { CodeBit(code) : code \in AlarmCodes }

\* C20: when a set_data call of plant p returns, and no operator has
\* acknowledged anything, the alarm_flags bit of every alarm condition is
\* set if and only if the condition held in this tick, and an active alarm
\* of p with the condition's code is in the registry if and only if the
\* condition held in this tick.
C20_FlagsAndAlarms ==
    [][\A p \in Plants :
         (pc[p] = "write_back" /\ pc'[p] = "sleep" /\ ops = 0) =>
            /\ \A bit \in FlagBits :
                  bit \in plant_data'[p].alarm_flags <=>
                     \E code \in AlarmCodes :
                         CodeBit(code) = bit /\ HoldsNow(p, code)
            /\ \A code \in AlarmCodes :
                  HasActive(alarms', p, code) <=> HoldsNow(p, code)]_vars

\* The order in which step 11 of set_data looks at the alarm codes.
FaultOrder ==
    << AC_OVERVOLTAGE, AC_UNDERVOLTAGE, AC_OVERFREQUENCY, AC_UNDERFREQUENCY,
       ISOLATION_FAULT, GROUND_FAULT, OVERTEMPERATURE, FAN_FAULT,
       DC_OVERVOLTAGE, ROCOF_TRIP >>

\* The code of the first condition of that order that holds, NONE if none.
RECURSIVE FirstHolding(_, _)
FirstHolding(s, i) ==
    IF i > Len(FaultOrder) THEN NONE
    ELSE IF Condition(FaultOrder[i], s) THEN FaultOrder[i]
    ELSE FirstHolding(s, i + 1)

\* C21: after every tick fault_code is the code of the first condition
\* that holds in the order 101, 102, 103/104, 301, 302, 401, 402, 201, 105,
\* and 0 when none holds.
C21_FaultPriority ==
    \A p \in Plants :
        (pc[p] = "sleep" /\ loc[p].snap # NoSnap) =>
            plant_data[p].fault_code = FirstHolding(loc[p].snap, 1)

\* A tick in which an overvoltage, an over-frequency, an isolation fault
\* and an overtemperature held together has ended with fault_code 101, and
\* the tick before it, with the overtemperature alone, with fault_code 401.
C21_Witness ==
    /\ pc[1] = "sleep"
    /\ ticks[1] = 2
    /\ pre[1].fault_code = OVERTEMPERATURE
    /\ plant_data[1].fault_code = AC_OVERVOLTAGE
    /\ Condition(AC_OVERFREQUENCY, loc[1].snap)
    /\ Condition(ISOLATION_FAULT, loc[1].snap)
    /\ Condition(OVERTEMPERATURE, loc[1].snap)

\* ------------------------------------------------ C22: status selection
\* The selection as the rule list states it: the first matching rule wins,
\* Running before MPPT.
StatusAsStated(has_fault, ramp, poa, ac_power, load_factor, is_day,
               elevation) ==
    IF has_fault THEN STATUS_FAULT
    ELSE IF ramp < 50 /\ poa < IRRAD_START_W_M2 THEN STATUS_STOPPED
    ELSE IF ramp < 990 /\ poa >= IRRAD_START_W_M2 THEN STATUS_STARTING
    ELSE IF ramp > 0 /\ ramp < 1000 /\ poa < IRRAD_START_W_M2
    THEN STATUS_CURTAILED
    ELSE IF load_factor >= 999 THEN STATUS_RUNNING
    ELSE IF ac_power > 1 THEN STATUS_MPPT
    ELSE IF is_day /\ elevation > 1000 THEN STATUS_STARTING
    ELSE STATUS_STOPPED

\* Values on both sides of every threshold of the selection.
StatusRamps == {0, 49, 50, 989, 990, 994}
StatusPoas == {0, IRRAD_START_W_M2 - 1, IRRAD_START_W_M2, 800000}
StatusPowers == {0, 1, 2, 56000}
StatusLoads == {0, 998, 999, 1100}
StatusElevations == {-30000, 1000, 1001, 50000}

\* The status of the tick plant p has just finished, by the rule list.
StatedStatus(p) ==
    StatusAsStated(HasFault(loc[p].snap.v_avg, plant_data[p],
                            loc[p].snap.dc_ov),
                   plant_data[p].ramp_factor,
                   plant_data[p].poa_irradiance_w_m2,
                   plant_data[p].power_kw,
                   LoadFactor(plant_data[p].dc_power_kw, nominal_power_kw(p)),
                   plant_data[p].is_day,
                   plant_data[p].solar_elevation_deg)

\* C22: after every tick the stored status is the one the rule list
\* selects (Fault on any limit breach, then Stopped, Starting, Curtailed,
\* Running, MPPT, Starting, Stopped by the first matching rule), and
\* set_data's selection agrees with the rule list for every combination of
\* ramp, POA, load factor, AC power, is_day and elevation.
C22_StatusRules ==
    /\ \A p \in Plants :
          (pc[p] = "sleep" /\ loc[p].snap # NoSnap)
              => plant_data[p].status = StatedStatus(p)
    /\ \A f \in BOOLEAN, ramp \in StatusRamps, poa \in StatusPoas :
       \A ac \in StatusPowers, l \in StatusLoads :
       \A day \in BOOLEAN, el \in StatusElevations :
          StatusOf(f, ramp, poa, ac, l, day, el)
              = StatusAsStated(f, ramp, poa, ac, l, day, el)

\* The part of C22 about the ticks of a plant of 100 kW.
C22_TicksFollowRules ==
    \A p \in Plants :
        (pc[p] = "sleep" /\ loc[p].snap # NoSnap)
            => plant_data[p].status = StatedStatus(p)

\* ------------------------------------- C23: severity of the 302 alarm
\* The largest leakage current step 9b can compute: the isolation at its
\* floor of 0.05 MOhm, the air saturated, the hash at its maximum.
MaxLeakage == LeakageCurrent(50, 100000, 999)

\* C23 (its premise): the leakage current stays below the warning threshold
\* of 100 mA, so neither leakage branch of step 11 runs and no alarm with
\* code 302 is ever in the registry.
C23_NoGroundFaultAlarm ==
    /\ MaxLeakage <= 100000
    /\ \A p \in DOMAIN plant_data :
          plant_data[p].leakage_current_ma <= MaxLeakage
    /\ \A i \in 1..Len(alarms) : alarms[i].code # GROUND_FAULT

\* ------------------------------------------------- C24: poisoned locks
\* set_data has stored what it derived in the tick plant p has finished.
RecordUpdated(p) ==
    /\ p \in DOMAIN plant_data
    /\ loc[p].snap # NoSnap
    /\ plant_data[p].poa_irradiance_w_m2 = loc[p].est.poa_irradiance_w_m2
    /\ plant_data[p].frequency_hz = loc[p].snap.snap_freq

\* The step is a clear_plant_alarms(p) that returned.
Acknowledges(p) == ops' = ops + 1 /\ op' = op /\ alarms' # alarms

\* C24: with a lock poisoned or not, every operation proceeds: a finished
\* tick has updated the plant's record, its raise_alarm has left an active
\* alarm for a swell, every alarm raised has pushed its event when
\* raise_alarm returns,
\* clear_plant_alarms leaves no alarm of the plant active, and get_data
\* returns the stored record.
C24_PoisonRecovered ==
    /\ [](\A p \in Plants :
            (pc[p] = "sleep" /\ ticks[p] > 0)
                => /\ RecordUpdated(p)
                   /\ (ops = 0 /\ Condition(AC_OVERVOLTAGE, loc[p].snap))
                         => ActiveOf(p, AC_OVERVOLTAGE) # {})
    /\ []((alarms # << >> /\ \A p \in Plants : pc[p] # "event")
             => events # << >>)
    /\ [][ /\ \A p \in Plants :
               Acknowledges(p) => \A i \in 1..Len(alarms') :
                                     alarms'[i].plant_id = p
                                         => ~alarms'[i].active
           /\ obs' # obs
                => (obs'.plant \in DOMAIN plant_data
                       => obs'.rec = plant_data[obs'.plant]) ]_vars

\* --------------------------------------------- C25: the tasks never stop
\* C25: after every tick of a plant another tick of the same plant follows
\* (up to the MaxTicks ticks the model counts), offline and online, whatever
\* the weather endpoint and the other tasks do.
C25_TicksForever ==
    \A p \in Plants : \A k \in 0..(MaxTicks - 1) :
        (ticks[p] = k) ~> (ticks[p] = k + 1)

\* ------------------------------------------ C26: reads of any range
\* C26: no read request makes the handler fail, and a read of cnt registers
\* from addr is answered with exactly cnt words, the i-th being the value of
\* the register at the 16-bit address addr + i - 1 (0 if it is in no
\* register map or its plant has no record), across the blocks of several
\* plants and past address 65535.
C26_AnyRange ==
    /\ mb.result # "panic"
    /\ ( mb.pc = "done" /\ mb.fn \in ReadFunctions ) =>
          /\ Len(mb.regs) = mb.cnt
          /\ \A i \in 1..mb.cnt :
                mb.regs[i] = RegisterWord((mb.addr + i - 1) % 65536, mb.seen[i])

\* ------------------------------------- C27: a tick and the other plants
\* The alarms of plant q in a registry, in registry order.
AlarmsOfPlant(registry, q) == SelectSeq(registry, LAMBDA a : a.plant_id = q)

\* What belongs to plant q: its record, its previous frequency, its alarms.
Belongings(q, map, freqs, registry) ==
    << IF q \in DOMAIN map THEN map[q] ELSE NoData,
       IF q \in DOMAIN freqs THEN freqs[q] ELSE NONE,
       AlarmsOfPlant(registry, q) >>

\* C27: no step of a tick of plant a changes what belongs to another plant
\* b: b's record, b's previous frequency, and the alarms of b in the
\* registry with their active flags, also when the alarm history is full.
C27_OtherPlantUntouched ==
    [][\A a \in Plants : \A b \in Plants \ {a} :
         TaskStep(a) => Belongings(b, plant_data', prev_freq', alarms')
                          = Belongings(b, plant_data, prev_freq, alarms)]_vars

\* The part of C27 for a history with room for another alarm.
C27_UntouchedWithRoom ==
    [][\A a \in Plants : \A b \in Plants \ {a} :
         (TaskStep(a) /\ Len(alarms) < MAX_ALARM_HISTORY)
            => Belongings(b, plant_data', prev_freq', alarms')
                 = Belongings(b, plant_data, prev_freq, alarms)]_vars

\* ------------------------------------------------- C28: no deadlock
\* Process proc waits for a lock.
Blocked(proc) ==
    /\ lk[proc].todo # << >>
    /\ Head(lk[proc].todo).ev = "acq"
    /\ ~Free(Head(lk[proc].todo).lock, Head(lk[proc].todo).mode)

\* Some process that is not waiting holds the lock proc waits for.
WillBeServed(proc) ==
    \E q \in Procs \ {proc} :
        /\ ~Blocked(q)
        /\ \E h \in lk[q].holds : h[1] = Head(lk[proc].todo).lock

\* C28: under every interleaving no deadlock is reachable: a process that
\* waits for a lock waits for a process that is running; a process asks for
\* plant_data, alarms or events only while it holds no lock, and for
\* prev_freq only while it holds plant_data and nothing else; and an
\* operation that has ended holds no lock.
C28_NoDeadlock ==
    \A proc \in Procs :
        /\ Blocked(proc) => WillBeServed(proc)
        /\ (lk[proc].todo # << >> /\ Head(lk[proc].todo).ev = "acq") =>
              IF Head(lk[proc].todo).lock = "prev_freq"
              THEN lk[proc].holds = { << "plant_data", "write" >> }
              ELSE lk[proc].holds = {}
        /\ lk[proc].todo = << >> => lk[proc].holds = {}

\* Plant 1 is inside set_data's first critical section, writing prev_freq;
\* plant 2 and the reader wait for plant_data; the operator holds alarms.
C28_Witness ==
    /\ lk[1].holds = { << "plant_data", "write" >>, << "prev_freq", "write" >> }
    /\ Blocked(2)
    /\ Blocked(Reader)
    /\ << "alarms", "write" >> \in lk[Operator].holds

\* ------------------------------------------- C29: frequency and ROCOF
\* C29: every stored frequency lies within 49.2 .. 50.8 Hz; the stored
\* ROCOF of a tick is (this tick's frequency - the frequency of the plant's
\* tick before) / 5 and 0 on the plant's first tick, so it is at most
\* 0.32 Hz/s in size; no ROCOF alarm (105) is ever raised and fault_code is
\* never 105.
C29_RocofNeverTrips ==
    /\ \A p \in DOMAIN plant_data :
          /\ plant_data[p].frequency_hz >= 49200
          /\ plant_data[p].frequency_hz <= 50800
          /\ Abs(plant_data[p].rocof_hz_s) <= 320
          /\ plant_data[p].fault_code # ROCOF_TRIP
          /\ loc[p].snap # NoSnap =>
                plant_data[p].rocof_hz_s =
                    IF pre[p] = NoData THEN 0
                    ELSE Div(plant_data[p].frequency_hz - pre[p].frequency_hz,
                             UPDATE_INTERVAL_S)
    /\ \A i \in 1..Len(alarms) : alarms[i].code # ROCOF_TRIP

\* Plant 1's grid went from an over-frequency event to an under-frequency
\* event between two ticks: the largest swing there is.
C29_Witness ==
    /\ pc[1] = "sleep"
    /\ ticks[1] = 2
    /\ pre[1] # NoData
    /\ pre[1].frequency_hz > 50700
    /\ plant_data[1].frequency_hz < 49300
    /\ plant_data[1].rocof_hz_s < -300
    /\ plant_data[1].fault_code = AC_UNDERFREQUENCY

====
